---- MODULE Spec2Model ----
(***************************************************************************)
(* ResetWorker (src/reset_worker.py): the per-device three-phase state     *)
(* machine (maintenance ON -> reset inclinometer -> maintenance OFF), the  *)
(* thread pool that runs one task per entry of the input list, the shared  *)
(* stop flag, the statistics and the cleanup of pending maintenance.       *)
(*                                                                         *)
(* The network (DIGILApiClient) is the environment: every call returns any *)
(* of the outcomes its code can return.  Time is the ordinal of the send   *)
(* within a task: two sends of one task are at least one sleep apart, so   *)
(* their acceptance times strictly increase.                               *)
(***************************************************************************)
EXTENDS Integers, Sequences, FiniteSets, TLC

\* ------------------------------------------------------------------ bounds
\* Cap on the send attempts of a run, all tasks and phases together (the retry
\* loops of the code are unbounded).
MaxSends == 3
\* Largest pool width tried (ResetWorker.max_threads is configuration).
MaxThreads == 2

\* ------------------------------------------------------------- input space
Devices == {"d1", "d2"}

\* The input lists tried: empty, one device, two devices, a repeated id.
DeviceLists == { <<>>, <<"d1">>, <<"d1", "d2">>, <<"d1", "d1">> }

\* ------------------------------------------------------- values of the code
\* ResetPhase
IDLE == "idle"
MAINTENANCE_ON_SENDING == "maint_on_sending"
MAINTENANCE_ON_CHECKING_LOG == "maint_on_checking_log"
MAINTENANCE_ON_VERIFYING == "maint_on_verifying"
RESET_SENDING == "reset_sending"
RESET_CHECKING_LOG == "reset_checking_log"
MAINTENANCE_OFF_SENDING == "maint_off_sending"
MAINTENANCE_OFF_CHECKING_LOG == "maint_off_checking_log"
MAINTENANCE_OFF_VERIFYING == "maint_off_verifying"
COMPLETED == "completed"

\* the phases in the order of the process
PhaseOrder ==
    << IDLE, MAINTENANCE_ON_SENDING, MAINTENANCE_ON_CHECKING_LOG, MAINTENANCE_ON_VERIFYING,
       RESET_SENDING, RESET_CHECKING_LOG,
       MAINTENANCE_OFF_SENDING, MAINTENANCE_OFF_CHECKING_LOG, MAINTENANCE_OFF_VERIFYING,
       COMPLETED >>

\* ResetStatus
PENDING == "In attesa"
IN_PROGRESS == "In corso"
MAINT_ON == "Maint ON..."
RESET_CMD == "Reset..."
MAINT_OFF == "Maint OFF..."
OK == "OK"
ERROR == "Errore"
INTERRUPTED == "Interrotto"

\* per-phase outcome strings
NON_ESEGUITO == "NON ESEGUITO"
GIA_ON == "GIA' ON"

\* what get_maintenance_status can return: (False, None, error) or
\* (True, maintenanceMode, "") with maintenanceMode "ON", "OFF" or null
ConfigOutcomes == {"error", "ON", "OFF", "null"}

\* what check_command_in_log can return: an error, or one of the statuses
LookupOutcomes == {"error", "pending", "sent_ok", "sent_error", "sent_no_response", "not_found"}

\* the dataclass defaults of ResetResult
NewResult ==
    [ current_phase |-> IDLE,
      manutenzione_on |-> NON_ESEGUITO,
      reset_inclinometro |-> NON_ESEGUITO,
      manutenzione_off |-> NON_ESEGUITO,
      maintenance_state |-> "UNKNOWN",
      reset_timestamp |-> {},
      maint_on_attempts |-> 0,
      reset_attempts |-> 0,
      maint_off_attempts |-> 0,
      error_message |-> "",
      status |-> PENDING,
      has_maintenance_on_pending |-> FALSE ]

\* MaintenanceState recorded after a configuration read that is not the target
StateOf(m) == IF m = "ON" THEN "ON" ELSE IF m = "OFF" THEN "OFF" ELSE "UNKNOWN"

\* datetime.now() at a send of the task owning record r: the ordinal of the send
Now(r) == r.maint_on_attempts + r.reset_attempts + r.maint_off_attempts

\* int(sent_time.timestamp() * 1000)
ToEpochMs(t) == t * 1000

VARIABLES
    device_ids,   \* the list given to run()
    max_threads,  \* ResetWorker.max_threads
    run_pc,       \* where run() is: "new", "collect", "joining", "returned"
    auth_ok,      \* outcome of validate_config ("none" before run)
    stop,         \* _stop_flag
    task_pc,      \* where each submitted _process_single_device call is
    rec,          \* the ResetResult object of each list position
    results,      \* _results: device id -> list position of its record, 0 = no key
    stats,        \* self.stats
    sent_time,    \* local sent_time of each task (0 = unassigned)
    yielded,      \* futures that as_completed has handed to run()
    delivered,    \* number of device_complete_callback calls per task
    cleanup,      \* send_maintenance_off_to_pending: its position and what it sent
    obs,          \* history of each task, for the properties only
    call          \* an operation followed on its own (log lookup, verification): arguments, state, result

vars == << call, device_ids, max_threads, run_pc, auth_ok, stop, task_pc, rec, results,
           stats, sent_time, yielded, delivered, cleanup, obs >>

Tasks == 1..Len(device_ids)

\* no call of the log functions is followed on its own
NoCall == [fn |-> "none"]

NewObs ==
    [ phase_at_stop |-> "none",   \* current_phase when stop() was called
      on_outstanding |-> FALSE,   \* an accepted maintenance-ON send is not yet followed by a confirmed OFF
      on_accepted |-> FALSE,      \* some maintenance-ON send was accepted
      off_confirmed |-> FALSE,    \* maintenance-OFF confirmed (log sent_ok + configuration OFF)
      reset_ok_seen |-> FALSE,    \* the log lookup of the reset command returned sent_ok
      ok_sent_after |-> 0,        \* the sent_after argument of that lookup
      precheck_on |-> FALSE,      \* the pre-check read maintenanceMode = ON
      on_confirmed |-> FALSE,     \* maintenance ON confirmed: pre-check ON, or log sent_ok then configuration ON
      reset_accepted |-> FALSE,   \* some reset send was accepted
      first_cmd |-> "none",       \* first command the task handed to send_command
      net_called |-> FALSE,       \* the task made a network call (configuration, send or log)
      waits_after_stop |-> 0,     \* network calls and sleeps the task began after stop() was called
      sends_after_stop |-> 0,     \* send_command calls the task began after stop() was called
      last_call |-> << "none" >> ] \* the task's last network call and what it returned

Init ==
    /\ device_ids \in DeviceLists
    \* a pool wider than the list behaves as one of the width of the list
    /\ max_threads \in 1..MaxThreads
    /\ max_threads <= IF Len(device_ids) = 0 THEN 1 ELSE Len(device_ids)
    /\ run_pc = "new"
    /\ auth_ok = "none"
    /\ stop = FALSE
    /\ task_pc = [t \in Tasks |-> "unsubmitted"]
    /\ rec = [t \in Tasks |-> NewResult]
    /\ results = [d \in Devices |-> 0]
    /\ stats = [total |-> 0, completed |-> 0, success |-> 0, failed |-> 0, in_progress |-> 0]
    /\ sent_time = [t \in Tasks |-> 0]
    /\ yielded = {}
    /\ delivered = [t \in Tasks |-> 0]
    /\ cleanup = [pc |-> "idle", todo |-> {}, sent |-> [d \in Devices |-> 0],
                  after_cancel |-> FALSE]
    /\ obs = [t \in Tasks |-> NewObs]
    /\ call = NoCall

\* ------------------------------------------------------------ record updates
\* ResetResult(deviceid), tipo, status = IN_PROGRESS
StartRecord == [NewResult EXCEPT !.status = IN_PROGRESS]

\* the record made for each device when validate_config fails
AuthErrorRecord == [NewResult EXCEPT !.status = ERROR, !.error_message = "Auth error"]

\* variant: the pre-check records "already on" without flagging the device
PreCheckRecord_NoFlag(r, m) ==
    IF m = "ON"
    THEN [r EXCEPT !.current_phase = MAINTENANCE_ON_VERIFYING,
                   !.maintenance_state = "ON",
                   !.manutenzione_on = GIA_ON]
    ELSE [r EXCEPT !.current_phase = MAINTENANCE_ON_VERIFYING,
                   !.maintenance_state = IF m = "error" THEN @ ELSE StateOf(m)]

\* pre-check: the configuration read m; ON marks phase 1 as already done
PreCheckRecord(r, m) ==
    IF m = "ON"
    THEN [r EXCEPT !.current_phase = MAINTENANCE_ON_VERIFYING,
                   !.maintenance_state = "ON",
                   !.manutenzione_on = GIA_ON,
                   !.has_maintenance_on_pending = TRUE]
    ELSE [r EXCEPT !.current_phase = MAINTENANCE_ON_VERIFYING,
                   !.maintenance_state = IF m = "error" THEN @ ELSE StateOf(m)]

\* phase 1 is entered: current_phase, status
EnterPhase1(r) == [r EXCEPT !.current_phase = MAINTENANCE_ON_SENDING, !.status = MAINT_ON]

\* variant: the flag is left for the confirmation to set
OnSendAccepted_FlagLate(r) == [r EXCEPT !.current_phase = MAINTENANCE_ON_CHECKING_LOG]

\* maintenance ON accepted for send: the flag is set before any confirmation
OnSendAccepted(r) ==
    [r EXCEPT !.has_maintenance_on_pending = TRUE,
              !.current_phase = MAINTENANCE_ON_CHECKING_LOG]

\* variant: a failed verification moves the phase back to the send state
OnVerified_BackToSend(r, m) ==
    IF m = "ON"
    THEN [r EXCEPT !.maintenance_state = "ON", !.manutenzione_on = OK]
    ELSE [r EXCEPT !.maintenance_state = IF m = "error" THEN @ ELSE StateOf(m),
                   !.current_phase = MAINTENANCE_ON_SENDING]

\* configuration read m after the log said sent_ok for maintenance ON
OnVerified(r, m) ==
    IF m = "ON"
    THEN [r EXCEPT !.maintenance_state = "ON", !.manutenzione_on = OK]
    ELSE [r EXCEPT !.maintenance_state = IF m = "error" THEN @ ELSE StateOf(m)]

\* variant: an interrupted record drops its pending flag
Interrupted_ClearsFlag(r) ==
    [r EXCEPT !.status = INTERRUPTED, !.error_message = "Interrotto dall'utente",
              !.has_maintenance_on_pending = FALSE]

\* variant: an interrupted record is reported as failed
Interrupted_AsFailed(r) == [r EXCEPT !.status = "Fallito", !.error_message = "Interrotto dall'utente"]

\* status INTERRUPTED, error_message
Interrupted(r) == [r EXCEPT !.status = INTERRUPTED, !.error_message = "Interrotto dall'utente"]

\* variant: the timestamp of the first accepted send is kept
ResetSendAccepted_KeepsFirst(r, st) ==
    [r EXCEPT !.reset_timestamp = IF @ = {} THEN {ToEpochMs(st)} ELSE @,
              !.current_phase = RESET_CHECKING_LOG]

\* variant: the timestamp is not stored at the send
ResetSendAccepted_NoStamp(r, st) == [r EXCEPT !.current_phase = RESET_CHECKING_LOG]

\* reset accepted for send at time st: the timestamp is stored at once
ResetSendAccepted(r, st) ==
    [r EXCEPT !.reset_timestamp = {ToEpochMs(st)},
              !.current_phase = RESET_CHECKING_LOG]

\* variant: the confirmation is not recorded
ResetConfirmed_Unmarked(r) == r

\* the log said sent_ok for the reset command
ResetConfirmed(r) == [r EXCEPT !.reset_inclinometro = OK]

\* variant: the confirmation of maintenance OFF leaves the pending flag set
OffVerified_KeepsFlag(r, m) ==
    IF m = "OFF"
    THEN [r EXCEPT !.maintenance_state = "OFF", !.manutenzione_off = OK]
    ELSE [r EXCEPT !.maintenance_state =
                       IF m = "error" THEN @ ELSE IF m = "ON" THEN "ON" ELSE "UNKNOWN"]

\* configuration read m after the log said sent_ok for maintenance OFF
OffVerified(r, m) ==
    IF m = "OFF"
    THEN [r EXCEPT !.maintenance_state = "OFF",
                   !.manutenzione_off = OK,
                   !.has_maintenance_on_pending = FALSE]
    ELSE [r EXCEPT !.maintenance_state =
                       IF m = "error" THEN @ ELSE IF m = "ON" THEN "ON" ELSE "UNKNOWN"]

\* variant: the send block of phase 2 copied into phase 3 with its timestamp lines
OffSendAccepted_Stamps(r, st) ==
    [r EXCEPT !.reset_timestamp = {ToEpochMs(st)},
              !.current_phase = MAINTENANCE_OFF_CHECKING_LOG]

\* maintenance OFF accepted for send at time st
OffSendAccepted(r, st) == [r EXCEPT !.current_phase = MAINTENANCE_OFF_CHECKING_LOG]

\* current_phase COMPLETED, status OK
Completed(r) == [r EXCEPT !.current_phase = COMPLETED, !.status = OK]

\* ------------------------------------------------------------------ helpers
\* _update_stats(field, delta)
UpdateStats(field, delta) == stats' = [stats EXCEPT ![field] = @ + delta]

\* the value _results[d] holds after "for did in device_ids: _results[did] = result"
LastIndexOf(d) ==
    IF \E i \in Tasks : device_ids[i] = d
    THEN CHOOSE i \in Tasks : device_ids[i] = d /\ \A j \in Tasks : device_ids[j] = d => j <= i
    ELSE 0

\* send attempts made so far by the tasks 1..n
RECURSIVE SumSends(_)
SumSends(n) == IF n = 0 THEN 0 ELSE Now(rec[n]) + SumSends(n - 1)

TotalSends == SumSends(Len(device_ids))

\* a pool thread is executing _process_single_device for t
Running(t) == task_pc[t] \notin {"unsubmitted", "queued", "cancelled", "done"}

\* what a task step leaves alone
TaskFrame == UNCHANGED << call, device_ids, max_threads, run_pc, auth_ok, stop, results,
                          yielded, delivered, cleanup >>

Goto(t, pc) == task_pc' = [task_pc EXCEPT ![t] = pc]

SetRec(t, r) == rec' = [rec EXCEPT ![t] = r]

\* the task blocks in a network call or a time.sleep.  A step of the model is
\* the whole call, so a stop() that precedes the step is one that arrives before
\* the call begins; one that arrives during the call is, for the task, a stop()
\* right after the step.  The history of calls is kept where one run is
\* followed with it (TraceSpec).
Blocked(o) ==
    [o EXCEPT !.waits_after_stop = IF stop /\ call.fn = "trace" /\ @ < 3 THEN @ + 1 ELSE @]

\* the task's call of kind k ("send", "log", "config") returned outcome x
Returned(o, k, x) == IF call.fn = "trace" THEN [o EXCEPT !.last_call = << k, x >>] ELSE o

\* the task sleeps: time.sleep(5) or time.sleep(check_interval)
Sleep(t) == obs' = [obs EXCEPT ![t] = Blocked(@)]

\* the task makes a network call
NetCall(t, o) == [Blocked(o) EXCEPT !.net_called = TRUE]

\* the task hands command c to send_command
SendCall(t, o, c) ==
    [Blocked(o) EXCEPT !.net_called = TRUE,
                       !.first_cmd = IF @ = "none" THEN c ELSE @,
                       !.sends_after_stop =
                           IF stop /\ call.fn = "trace" /\ @ < 2 THEN @ + 1 ELSE @]

\* --------------------------------------------------------------- run(), stop()
\* variant: the early return is missing, the devices are submitted all the same
AuthFailed_Dispatches ==
    /\ auth_ok' = "failed"
    /\ run_pc' = "collect"
    /\ rec' = [t \in Tasks |-> AuthErrorRecord]
    /\ results' = [d \in Devices |-> LastIndexOf(d)]
    /\ task_pc' = [t \in Tasks |-> "queued"]

\* validate_config failed: one ERROR record per device id, completion callback, return
AuthFailed ==
    /\ auth_ok' = "failed"
    /\ run_pc' = "returned"
    /\ rec' = [t \in Tasks |-> AuthErrorRecord]
    /\ results' = [d \in Devices |-> LastIndexOf(d)]
    /\ UNCHANGED task_pc

\* validate_config succeeded: executor.submit for every entry of the list
Dispatch ==
    /\ auth_ok' = "ok"
    /\ run_pc' = "collect"
    /\ task_pc' = [t \in Tasks |-> "queued"]
    /\ results' = [d \in Devices |-> 0]
    /\ UNCHANGED rec

\* run(): reset(), stats.total, validate_config; on failure one ERROR record per
\* device and return; on success every device is submitted to the pool
Run(ok) ==
    /\ run_pc = "new"
    /\ stop' = FALSE
    /\ stats' = [total |-> Len(device_ids), completed |-> 0, success |-> 0,
                 failed |-> 0, in_progress |-> 0]
    /\ IF ok THEN Dispatch ELSE AuthFailed
    /\ UNCHANGED << call, device_ids, max_threads, sent_time, yielded, delivered, cleanup, obs >>

\* stop(): sets the flag (the history remembers where each task was)
Stop ==
    /\ run_pc # "new"
    /\ ~stop
    /\ stop' = TRUE
    /\ obs' = [t \in Tasks |-> [obs[t] EXCEPT !.phase_at_stop = rec[t].current_phase]]
    /\ UNCHANGED << call, device_ids, max_threads, run_pc, auth_ok, task_pc, rec, results,
                    stats, sent_time, yielded, delivered, cleanup >>

\* as_completed hands a finished future to run(): with the flag set, the queued
\* futures are cancelled and the loop is left; otherwise the result is delivered
RunCollect(t) ==
    /\ run_pc = "collect"
    /\ task_pc[t] = "done"
    /\ t \notin yielded
    /\ yielded' = yielded \cup {t}
    /\ IF stop
       THEN /\ task_pc' = [u \in Tasks |-> IF task_pc[u] = "queued" THEN "cancelled" ELSE task_pc[u]]
            /\ run_pc' = "joining"
            /\ UNCHANGED delivered
       ELSE /\ delivered' = [delivered EXCEPT ![t] = @ + 1]
            /\ UNCHANGED << task_pc, run_pc >>
    /\ UNCHANGED << call, device_ids, max_threads, auth_ok, stop, rec, results, stats,
                    sent_time, cleanup, obs >>

\* as_completed is exhausted: every future was handed over
RunLoopEnd ==
    /\ run_pc = "collect"
    /\ yielded = Tasks
    /\ run_pc' = "joining"
    /\ UNCHANGED << call, device_ids, max_threads, auth_ok, stop, task_pc, rec, results, stats,
                    sent_time, yielded, delivered, cleanup, obs >>

\* leaving the "with ThreadPoolExecutor" block waits for the pool; then the
\* completion callback and the return
RunJoin ==
    /\ run_pc = "joining"
    /\ \A t \in Tasks : task_pc[t] \in {"done", "cancelled"}
    /\ run_pc' = "returned"
    /\ UNCHANGED << call, device_ids, max_threads, auth_ok, stop, task_pc, rec, results, stats,
                    sent_time, yielded, delivered, cleanup, obs >>

TaskStart_NoPoolLimit(t) ==
    /\ task_pc[t] = "queued"
    /\ \A u \in Tasks : task_pc[u] = "queued" => t <= u
    /\ SetRec(t, StartRecord)
    /\ results' = [results EXCEPT ![device_ids[t]] = t]
    /\ Goto(t, "stat_start")
    /\ UNCHANGED << call, device_ids, max_threads, run_pc, auth_ok, stop, stats, sent_time,
                    yielded, delivered, cleanup, obs >>

\* ------------------------------------------------- _process_single_device
\* a free pool thread takes the oldest queued call: the record is created and
\* stored in _results under the device id
TaskStart(t) ==
    /\ task_pc[t] = "queued"
    /\ \A u \in Tasks : task_pc[u] = "queued" => t <= u
    /\ Cardinality({u \in Tasks : Running(u)}) < max_threads
    /\ SetRec(t, StartRecord)
    /\ results' = [results EXCEPT ![device_ids[t]] = t]
    /\ Goto(t, "stat_start")
    /\ UNCHANGED << call, device_ids, max_threads, run_pc, auth_ok, stop, stats, sent_time,
                    yielded, delivered, cleanup, obs >>

\* _update_stats("in_progress"); then the pre-check begins: current_phase is
\* set before the configuration is read
TaskStatStart(t) ==
    /\ task_pc[t] = "stat_start"
    /\ UpdateStats("in_progress", 1)
    /\ SetRec(t, [rec[t] EXCEPT !.current_phase = MAINTENANCE_ON_VERIFYING])
    /\ Goto(t, "precheck")
    /\ TaskFrame
    /\ UNCHANGED << sent_time, obs >>

\* pre-check: one configuration read; ON skips phase 1
PreCheck(t, m) ==
    /\ task_pc[t] = "precheck"
    /\ LET r1 == PreCheckRecord(rec[t], m)
       IN  IF r1.manutenzione_on # GIA_ON
           THEN SetRec(t, EnterPhase1(r1)) /\ Goto(t, "on_head")
           ELSE SetRec(t, r1) /\ Goto(t, "after1")
    /\ obs' = [obs EXCEPT ![t] =
                  IF m = "ON"
                  THEN [Returned(NetCall(t, @), "precheck", m) EXCEPT !.precheck_on = TRUE, !.on_confirmed = TRUE]
                  ELSE Returned(NetCall(t, @), "precheck", m)]
    /\ TaskFrame
    /\ UNCHANGED << stats, sent_time >>

\* variant: the send loop of phase 1 does not test the flag
OnHead_IgnoresStop(t) ==
    /\ task_pc[t] = "on_head"
    /\ TotalSends < MaxSends
    /\ SetRec(t, [rec[t] EXCEPT !.maint_on_attempts = @ + 1])
    /\ Goto(t, "on_send")
    /\ TaskFrame
    /\ UNCHANGED << stats, sent_time, obs >>

\* phase 1, head of "while not stop and not maint_on_done": attempts += 1
\* (the model stops resending when the run's send budget is used up)
OnHead(t) ==
    /\ task_pc[t] = "on_head"
    /\ IF stop
       THEN Goto(t, "after1") /\ UNCHANGED rec
       ELSE /\ TotalSends < MaxSends
            /\ SetRec(t, [rec[t] EXCEPT !.maint_on_attempts = @ + 1])
            /\ Goto(t, "on_send")
    /\ TaskFrame
    /\ UNCHANGED << stats, sent_time, obs >>

\* send_command(MAINTENANCE_ON_PAYLOAD): accepted or not
OnSend(t, ok) ==
    /\ task_pc[t] = "on_send"
    /\ sent_time' = [sent_time EXCEPT ![t] = Now(rec[t])]
    /\ IF ok
       THEN /\ SetRec(t, OnSendAccepted(rec[t]))
            /\ Goto(t, "on_sleep")
            /\ obs' = [obs EXCEPT ![t] = [Returned(SendCall(t, @, "maintenance_on"), "send", TRUE) EXCEPT
                                             !.on_outstanding = TRUE, !.on_accepted = TRUE]]
       ELSE /\ Goto(t, "on_backoff")
            /\ obs' = [obs EXCEPT ![t] = Returned(SendCall(t, @, "maintenance_on"), "send", FALSE)]
            /\ UNCHANGED rec
    /\ TaskFrame
    /\ UNCHANGED stats

\* variant: a failed send ends the task as failed
OnBackoff_GivesUp(t) ==
    /\ task_pc[t] = "on_backoff"
    /\ SetRec(t, [rec[t] EXCEPT !.status = "Fallito"])
    /\ Goto(t, "intr_a")
    /\ TaskFrame
    /\ UNCHANGED << stats, sent_time, obs >>

\* time.sleep(5); continue
OnBackoff(t) ==
    /\ task_pc[t] = "on_backoff"
    /\ Goto(t, "on_head")
    /\ Sleep(t)
    /\ TaskFrame
    /\ UNCHANGED << rec, stats, sent_time >>

\* time.sleep(check_interval); if stop: break
OnSleep(t) ==
    /\ task_pc[t] = "on_sleep"
    /\ Goto(t, IF stop THEN "after1" ELSE "on_poll_head")
    /\ Sleep(t)
    /\ TaskFrame
    /\ UNCHANGED << rec, stats, sent_time >>

\* variant: the log loop does not test the flag
OnPollHead_IgnoresStop(t) ==
    /\ task_pc[t] = "on_poll_head"
    /\ Goto(t, "on_lookup")
    /\ TaskFrame
    /\ UNCHANGED << rec, stats, sent_time, obs >>

\* head of the log loop "while not stop"
OnPollHead(t) ==
    /\ task_pc[t] = "on_poll_head"
    /\ Goto(t, IF stop THEN "on_head" ELSE "on_lookup")
    /\ TaskFrame
    /\ UNCHANGED << rec, stats, sent_time, obs >>

\* check_command_in_log("maintenance", MAINT_ON_MATCH, sent_time)
OnLookup(t, s) ==
    /\ task_pc[t] = "on_lookup"
    /\ IF s = "pending"
       THEN Goto(t, "on_poll_sleep") /\ UNCHANGED rec
       ELSE IF s = "sent_ok"
       THEN /\ SetRec(t, [rec[t] EXCEPT !.current_phase = MAINTENANCE_ON_VERIFYING])
            /\ Goto(t, "on_verify")
       ELSE Goto(t, "on_head") /\ UNCHANGED rec
    /\ obs' = [obs EXCEPT ![t] = Returned(NetCall(t, @), "log", s)]
    /\ TaskFrame
    /\ UNCHANGED << stats, sent_time >>

\* pending: time.sleep(check_interval); continue
OnPollSleep(t) ==
    /\ task_pc[t] = "on_poll_sleep"
    /\ Goto(t, "on_poll_head")
    /\ Sleep(t)
    /\ TaskFrame
    /\ UNCHANGED << rec, stats, sent_time >>

\* get_maintenance_status after sent_ok: ON ends phase 1, anything else resends
OnVerify(t, m) ==
    /\ task_pc[t] = "on_verify"
    /\ SetRec(t, OnVerified(rec[t], m))
    /\ Goto(t, IF m = "ON" THEN "after1" ELSE "on_head")
    /\ obs' = [obs EXCEPT ![t] =
                  IF m = "ON" THEN [Returned(NetCall(t, @), "config", m) EXCEPT !.on_confirmed = TRUE] ELSE Returned(NetCall(t, @), "config", m)]
    /\ TaskFrame
    /\ UNCHANGED << stats, sent_time >>

\* after phase 1: interrupted, or on to phase 2
After1(t) ==
    /\ task_pc[t] = "after1"
    /\ IF stop
       THEN SetRec(t, Interrupted(rec[t])) /\ Goto(t, "intr_a")
       ELSE /\ SetRec(t, [rec[t] EXCEPT !.current_phase = RESET_SENDING, !.status = RESET_CMD])
            /\ Goto(t, "rs_head")
    /\ TaskFrame
    /\ UNCHANGED << stats, sent_time, obs >>

\* interrupted: _update_stats("in_progress", -1)
IntrStatA(t) ==
    /\ task_pc[t] = "intr_a"
    /\ UpdateStats("in_progress", -1)
    /\ Goto(t, "intr_b")
    /\ TaskFrame
    /\ UNCHANGED << rec, sent_time, obs >>

\* interrupted: _update_stats("failed"); return result
IntrStatB(t) ==
    /\ task_pc[t] = "intr_b"
    /\ UpdateStats("failed", 1)
    /\ Goto(t, "done")
    /\ TaskFrame
    /\ UNCHANGED << rec, sent_time, obs >>

\* phase 2, head of "while not stop and not reset_done": attempts += 1
ResetHead(t) ==
    /\ task_pc[t] = "rs_head"
    /\ IF stop
       THEN Goto(t, "after2") /\ UNCHANGED rec
       ELSE /\ TotalSends < MaxSends
            /\ SetRec(t, [rec[t] EXCEPT !.reset_attempts = @ + 1])
            /\ Goto(t, "rs_send")
    /\ TaskFrame
    /\ UNCHANGED << stats, sent_time, obs >>

\* send_command(RESET_INCL_PAYLOAD): accepted or not
ResetSend(t, ok) ==
    /\ task_pc[t] = "rs_send"
    /\ sent_time' = [sent_time EXCEPT ![t] = Now(rec[t])]
    /\ IF ok
       THEN /\ SetRec(t, ResetSendAccepted(rec[t], Now(rec[t])))
            /\ Goto(t, "rs_sleep")
            /\ obs' = [obs EXCEPT ![t] = [Returned(SendCall(t, @, "reset"), "send", TRUE) EXCEPT !.reset_accepted = TRUE]]
       ELSE /\ Goto(t, "rs_backoff")
            /\ obs' = [obs EXCEPT ![t] = Returned(SendCall(t, @, "reset"), "send", FALSE)]
            /\ UNCHANGED rec
    /\ TaskFrame
    /\ UNCHANGED stats

\* time.sleep(5); continue
ResetBackoff(t) ==
    /\ task_pc[t] = "rs_backoff"
    /\ Goto(t, "rs_head")
    /\ Sleep(t)
    /\ TaskFrame
    /\ UNCHANGED << rec, stats, sent_time >>

\* time.sleep(check_interval); if stop: break
ResetSleep(t) ==
    /\ task_pc[t] = "rs_sleep"
    /\ Goto(t, IF stop THEN "after2" ELSE "rs_poll_head")
    /\ Sleep(t)
    /\ TaskFrame
    /\ UNCHANGED << rec, stats, sent_time >>

\* head of the log loop "while not stop"
ResetPollHead(t) ==
    /\ task_pc[t] = "rs_poll_head"
    /\ Goto(t, IF stop THEN "rs_head" ELSE "rs_lookup")
    /\ TaskFrame
    /\ UNCHANGED << rec, stats, sent_time, obs >>

\* variant: a sent entry without response also ends phase 2
ResetLookup_NoResponseOk(t, s) ==
    /\ task_pc[t] = "rs_lookup"
    /\ IF s = "pending"
       THEN Goto(t, "rs_poll_sleep") /\ UNCHANGED rec /\ obs' = [obs EXCEPT ![t] = Returned(NetCall(t, @), "log", s)]
       ELSE IF s = "sent_ok"
       THEN /\ SetRec(t, ResetConfirmed(rec[t]))
            /\ Goto(t, "after2")
            /\ obs' = [obs EXCEPT ![t] = [Returned(NetCall(t, @), "log", s) EXCEPT !.reset_ok_seen = TRUE,
                                                             !.ok_sent_after = sent_time[t]]]
       ELSE IF s = "sent_no_response"
       THEN /\ SetRec(t, ResetConfirmed(rec[t]))
            /\ Goto(t, "after2")
            /\ obs' = [obs EXCEPT ![t] = Returned(NetCall(t, @), "log", s)]
       ELSE Goto(t, "rs_head") /\ UNCHANGED rec /\ obs' = [obs EXCEPT ![t] = Returned(NetCall(t, @), "log", s)]
    /\ TaskFrame
    /\ UNCHANGED << stats, sent_time >>

\* check_command_in_log("set_value", RESET_INCL_MATCH, sent_time): sent_ok ends phase 2
ResetLookup(t, s) ==
    /\ task_pc[t] = "rs_lookup"
    /\ IF s = "pending"
       THEN Goto(t, "rs_poll_sleep") /\ UNCHANGED rec /\ obs' = [obs EXCEPT ![t] = Returned(NetCall(t, @), "log", s)]
       ELSE IF s = "sent_ok"
       THEN /\ SetRec(t, ResetConfirmed(rec[t]))
            /\ Goto(t, "after2")
            /\ obs' = [obs EXCEPT ![t] = [Returned(NetCall(t, @), "log", s) EXCEPT !.reset_ok_seen = TRUE,
                                                             !.ok_sent_after = sent_time[t]]]
       ELSE Goto(t, "rs_head") /\ UNCHANGED rec /\ obs' = [obs EXCEPT ![t] = Returned(NetCall(t, @), "log", s)]
    /\ TaskFrame
    /\ UNCHANGED << stats, sent_time >>

\* pending: time.sleep(check_interval); continue
ResetPollSleep(t) ==
    /\ task_pc[t] = "rs_poll_sleep"
    /\ Goto(t, "rs_poll_head")
    /\ Sleep(t)
    /\ TaskFrame
    /\ UNCHANGED << rec, stats, sent_time >>

\* after phase 2: interrupted, or on to phase 3
After2(t) ==
    /\ task_pc[t] = "after2"
    /\ IF stop
       THEN SetRec(t, Interrupted(rec[t])) /\ Goto(t, "intr_a")
       ELSE /\ SetRec(t, [rec[t] EXCEPT !.current_phase = MAINTENANCE_OFF_SENDING,
                                         !.status = MAINT_OFF])
            /\ Goto(t, "off_head")
    /\ TaskFrame
    /\ UNCHANGED << stats, sent_time, obs >>

\* phase 3, head of "while not stop and not maint_off_done": attempts += 1
OffHead(t) ==
    /\ task_pc[t] = "off_head"
    /\ IF stop
       THEN Goto(t, "after3") /\ UNCHANGED rec
       ELSE /\ TotalSends < MaxSends
            /\ SetRec(t, [rec[t] EXCEPT !.maint_off_attempts = @ + 1])
            /\ Goto(t, "off_send")
    /\ TaskFrame
    /\ UNCHANGED << stats, sent_time, obs >>

\* send_command(MAINTENANCE_OFF_PAYLOAD): accepted or not
OffSend(t, ok) ==
    /\ task_pc[t] = "off_send"
    /\ sent_time' = [sent_time EXCEPT ![t] = Now(rec[t])]
    /\ IF ok
       THEN /\ SetRec(t, OffSendAccepted(rec[t], Now(rec[t])))
            /\ Goto(t, "off_sleep")
            /\ obs' = [obs EXCEPT ![t] = Returned(SendCall(t, @, "maintenance_off"), "send", TRUE)]
       ELSE /\ Goto(t, "off_backoff")
            /\ obs' = [obs EXCEPT ![t] = Returned(SendCall(t, @, "maintenance_off"), "send", FALSE)]
            /\ UNCHANGED rec
    /\ TaskFrame
    /\ UNCHANGED stats

\* time.sleep(5); continue
OffBackoff(t) ==
    /\ task_pc[t] = "off_backoff"
    /\ Goto(t, "off_head")
    /\ Sleep(t)
    /\ TaskFrame
    /\ UNCHANGED << rec, stats, sent_time >>

\* time.sleep(check_interval); if stop: break
OffSleep(t) ==
    /\ task_pc[t] = "off_sleep"
    /\ Goto(t, IF stop THEN "after3" ELSE "off_poll_head")
    /\ Sleep(t)
    /\ TaskFrame
    /\ UNCHANGED << rec, stats, sent_time >>

\* head of the log loop "while not stop"
OffPollHead(t) ==
    /\ task_pc[t] = "off_poll_head"
    /\ Goto(t, IF stop THEN "off_head" ELSE "off_lookup")
    /\ TaskFrame
    /\ UNCHANGED << rec, stats, sent_time, obs >>

\* check_command_in_log("maintenance", MAINT_OFF_MATCH, sent_time)
OffLookup(t, s) ==
    /\ task_pc[t] = "off_lookup"
    /\ IF s = "pending"
       THEN Goto(t, "off_poll_sleep") /\ UNCHANGED rec
       ELSE IF s = "sent_ok"
       THEN /\ SetRec(t, [rec[t] EXCEPT !.current_phase = MAINTENANCE_OFF_VERIFYING])
            /\ Goto(t, "off_verify")
       ELSE Goto(t, "off_head") /\ UNCHANGED rec
    /\ obs' = [obs EXCEPT ![t] = Returned(NetCall(t, @), "log", s)]
    /\ TaskFrame
    /\ UNCHANGED << stats, sent_time >>

\* pending: time.sleep(check_interval); continue
OffPollSleep(t) ==
    /\ task_pc[t] = "off_poll_sleep"
    /\ Goto(t, "off_poll_head")
    /\ Sleep(t)
    /\ TaskFrame
    /\ UNCHANGED << rec, stats, sent_time >>

\* get_maintenance_status after sent_ok: OFF ends phase 3 and clears the flag
OffVerify(t, m) ==
    /\ task_pc[t] = "off_verify"
    /\ SetRec(t, OffVerified(rec[t], m))
    /\ Goto(t, IF m = "OFF" THEN "after3" ELSE "off_head")
    /\ obs' = [obs EXCEPT ![t] =
                  IF m = "OFF"
                  THEN [Returned(NetCall(t, @), "config", m) EXCEPT !.on_outstanding = FALSE, !.off_confirmed = TRUE]
                  ELSE Returned(NetCall(t, @), "config", m)]
    /\ TaskFrame
    /\ UNCHANGED << stats, sent_time >>

\* after phase 3: interrupted, or completed
After3(t) ==
    /\ task_pc[t] = "after3"
    /\ IF stop
       THEN SetRec(t, Interrupted(rec[t])) /\ Goto(t, "intr_a")
       ELSE SetRec(t, Completed(rec[t])) /\ Goto(t, "comp_a")
    /\ TaskFrame
    /\ UNCHANGED << stats, sent_time, obs >>

\* completed: _update_stats("in_progress", -1)
CompStatA(t) ==
    /\ task_pc[t] = "comp_a"
    /\ UpdateStats("in_progress", -1)
    /\ Goto(t, "comp_b")
    /\ TaskFrame
    /\ UNCHANGED << rec, sent_time, obs >>

\* completed: _update_stats("success")
CompStatB(t) ==
    /\ task_pc[t] = "comp_b"
    /\ UpdateStats("success", 1)
    /\ Goto(t, "comp_c")
    /\ TaskFrame
    /\ UNCHANGED << rec, sent_time, obs >>

\* completed: _update_stats("completed"); return result
CompStatC(t) ==
    /\ task_pc[t] = "comp_c"
    /\ UpdateStats("completed", 1)
    /\ Goto(t, "done")
    /\ TaskFrame
    /\ UNCHANGED << rec, sent_time, obs >>

\* ------------------------------------------ send_maintenance_off_to_pending
\* get_devices_with_maintenance_on(): keys whose record has the flag and is not OK
DevicesWithMaintenanceOn ==
    { d \in Devices : /\ results[d] # 0
                      /\ rec[results[d]].has_maintenance_on_pending
                      /\ rec[results[d]].status # OK }

\* the call starts: the list of devices is taken once.  The callers
\* (main.py stop_phase1, closeEvent) call it after stop(), or it is called
\* after run() has returned.
CleanupStart ==
    /\ run_pc = "returned" \/ (run_pc # "new" /\ stop)
    /\ cleanup.pc = "idle"
    /\ cleanup' = [cleanup EXCEPT !.pc = "loop",
                                  !.todo = DevicesWithMaintenanceOn,
                                  !.after_cancel = stop /\ run_pc = "returned"]
    /\ UNCHANGED << call, device_ids, max_threads, run_pc, auth_ok, stop, task_pc, rec, results,
                    stats, sent_time, yielded, delivered, obs >>

\* one iteration of "for deviceid in devices": break when the stop flag is set,
\* else one send_command(MAINTENANCE_OFF_PAYLOAD), counted whatever its outcome
\* (the list is walked in any order: the order of _results is not modelled)
CleanupStep(d) ==
    /\ cleanup.pc = "loop"
    /\ d \in cleanup.todo
    /\ IF stop
       THEN cleanup' = [cleanup EXCEPT !.pc = "done"]
       ELSE cleanup' = [cleanup EXCEPT !.todo = @ \ {d}, !.sent[d] = @ + 1]
    /\ UNCHANGED << call, device_ids, max_threads, run_pc, auth_ok, stop, task_pc, rec, results,
                    stats, sent_time, yielded, delivered, obs >>

\* the list is exhausted: return results
CleanupEnd ==
    /\ cleanup.pc = "loop"
    /\ cleanup.todo = {}
    /\ cleanup' = [cleanup EXCEPT !.pc = "done"]
    /\ UNCHANGED << call, device_ids, max_threads, run_pc, auth_ok, stop, task_pc, rec, results,
                    stats, sent_time, yielded, delivered, obs >>

\* ---------------------------------------------------------------- the system
TaskStep(t) ==
    \/ TaskStart(t) \/ TaskStatStart(t)
    \/ \E m \in ConfigOutcomes : PreCheck(t, m)
    \/ OnHead(t) \/ (\E ok \in BOOLEAN : OnSend(t, ok)) \/ OnBackoff(t) \/ OnSleep(t)
    \/ OnPollHead(t) \/ (\E s \in LookupOutcomes : OnLookup(t, s)) \/ OnPollSleep(t)
    \/ (\E m \in ConfigOutcomes : OnVerify(t, m)) \/ After1(t)
    \/ ResetHead(t) \/ (\E ok \in BOOLEAN : ResetSend(t, ok)) \/ ResetBackoff(t) \/ ResetSleep(t)
    \/ ResetPollHead(t) \/ (\E s \in LookupOutcomes : ResetLookup(t, s)) \/ ResetPollSleep(t)
    \/ After2(t)
    \/ OffHead(t) \/ (\E ok \in BOOLEAN : OffSend(t, ok)) \/ OffBackoff(t) \/ OffSleep(t)
    \/ OffPollHead(t) \/ (\E s \in LookupOutcomes : OffLookup(t, s)) \/ OffPollSleep(t)
    \/ (\E m \in ConfigOutcomes : OffVerify(t, m)) \/ After3(t)
    \/ IntrStatA(t) \/ IntrStatB(t) \/ CompStatA(t) \/ CompStatB(t) \/ CompStatC(t)

Next ==
    \/ \E ok \in BOOLEAN : Run(ok)
    \/ Stop
    \/ \E t \in Tasks : RunCollect(t)
    \/ RunLoopEnd
    \/ RunJoin
    \/ \E t \in Tasks : TaskStep(t)
    \/ CleanupStart
    \/ \E d \in Devices : CleanupStep(d)
    \/ CleanupEnd

Spec == Init /\ [][Next]_vars

\* One device, and a pool thread that keeps running: every network call
\* returns (requests are made with timeouts) and every sleep ends, so a task
\* that can take a step eventually takes one.
LiveInit == Init /\ device_ids = <<"d1">>

LiveSpec == LiveInit /\ [][Next]_vars /\ WF_vars(TaskStep(1))

\* A run of one device, followed with the history of the task's calls: the
\* outcome of the last one, and what was begun after stop().  Every network call returns and every sleep ends, the
\* thread of run() keeps running: the steps of the task and of run() are
\* taken when they can be.
TraceInit ==
    /\ device_ids = <<"d1">>
    /\ max_threads = 1
    /\ run_pc = "new"
    /\ auth_ok = "none"
    /\ stop = FALSE
    /\ task_pc = [t \in Tasks |-> "unsubmitted"]
    /\ rec = [t \in Tasks |-> NewResult]
    /\ results = [d \in Devices |-> 0]
    /\ stats = [total |-> 0, completed |-> 0, success |-> 0, failed |-> 0, in_progress |-> 0]
    /\ sent_time = [t \in Tasks |-> 0]
    /\ yielded = {}
    /\ delivered = [t \in Tasks |-> 0]
    /\ cleanup = [pc |-> "idle", todo |-> {}, sent |-> [d \in Devices |-> 0],
                  after_cancel |-> FALSE]
    /\ obs = [t \in Tasks |-> NewObs]
    /\ call = [fn |-> "trace"]

TraceSpec ==
    /\ TraceInit
    /\ [][Next]_vars
    /\ WF_vars(TaskStep(1))
    /\ WF_vars((\E t \in Tasks : RunCollect(t)) \/ RunLoopEnd \/ RunJoin)

\* ============================================ the command log (api_client.py)
\* check_command_in_log and _command_matches are functions of their arguments
\* and of the body that get_commands_log returned.  JSON values are records
\* [type, v]; a payload string is a sequence of tokens (punctuation, white
\* space, string, number and null literals), which is what json.loads and the
\* fallback search of _command_matches look at.

\* ------------------------------------------------------------------ bounds
\* longest pendingCommands and sentCommands lists tried
MaxPending == 2
MaxSent == 2
\* longest response status string tried, in characters
MaxStatusLen == 5

\* margin = timedelta(seconds=5), in milliseconds
MarginMs == 5000

\* ------------------------------------------------------------- JSON values
Str(s) == [type |-> "str", v |-> s]
Num(s) == [type |-> "num", v |-> s]
Null == [type |-> "null", v |-> ""]

\* tokens of a payload string that are not values
Punct(c) == [type |-> "punct", v |-> c]
Space == [type |-> "ws", v |-> " "]
Newline == [type |-> "ws", v |-> "\n"]

\* str.upper() and str.lower() on the strings that occur
UpperOf(s) ==
    CASE s \in {"ON", "On", "on"} -> "ON"
      [] s \in {"OFF", "Off", "off"} -> "OFF"
      [] s \in {"status", "STATUS"} -> "STATUS"
      [] s \in {"param", "PARAM"} -> "PARAM"
      [] s \in {"value", "VALUE"} -> "VALUE"
      [] s \in {"COM_Digil2_Conf_Incl_Taratura", "com_digil2_conf_incl_taratura",
                "COM_DIGIL2_CONF_INCL_TARATURA"} -> "COM_DIGIL2_CONF_INCL_TARATURA"
      [] OTHER -> s

LowerOf(s) ==
    CASE s \in {"ON", "On", "on"} -> "on"
      [] s \in {"OFF", "Off", "off"} -> "off"
      [] s \in {"status", "STATUS"} -> "status"
      [] s \in {"param", "PARAM"} -> "param"
      [] s \in {"value", "VALUE"} -> "value"
      [] s \in {"COM_Digil2_Conf_Incl_Taratura", "com_digil2_conf_incl_taratura",
                "COM_DIGIL2_CONF_INCL_TARATURA"} -> "com_digil2_conf_incl_taratura"
      [] OTHER -> s

\* dict.get(key): None when the key is absent
DictGet(d, k) == IF k \in DOMAIN d THEN d[k] ELSE Null

\* the match sets of ResetWorker
MAINT_ON_MATCH == [status |-> Str("ON")]
MAINT_OFF_MATCH == [status |-> Str("OFF")]
RESET_INCL_MATCH == [param |-> Str("COM_Digil2_Conf_Incl_Taratura"), value |-> Str("1")]

\* the empty dict
EmptyDict == [k \in {} |-> Null]

\* ------------------------------------------------------------- json.loads
\* white space between tokens is skipped
RECURSIVE StripSpace(_)
StripSpace(ts) ==
    IF ts = <<>> THEN <<>>
    ELSE IF Head(ts).type = "ws" THEN StripSpace(Tail(ts))
    ELSE << Head(ts) >> \o StripSpace(Tail(ts))

\* json.loads(text): a dict, another value, or JSONDecodeError.  An object is
\* { }, or { member , member ... } with members "key" : value; of two members
\* with one key the later one counts.  Other JSON texts are one literal or an
\* empty list.
JsonLoads(text) ==
    LET ts == StripSpace(text)
        n == Len(ts)
        k == (n - 1) \div 4
        IsMember(i) ==
            /\ ts[i].type = "str"
            /\ ts[i + 1] = Punct(":")
            /\ ts[i + 2].type \in {"str", "num", "null"}
        IsObject ==
            /\ n >= 2
            /\ ts[1] = Punct("{")
            /\ ts[n] = Punct("}")
            /\ \/ n = 2
               \/ /\ n >= 5
                  /\ (n - 1) % 4 = 0
                  /\ \A j \in 0..(k - 1) :
                        /\ IsMember(2 + 4 * j)
                        /\ (5 + 4 * j < n) => ts[5 + 4 * j] = Punct(",")
        keys == { ts[2 + 4 * j].v : j \in 0..(k - 1) }
        last(key) == CHOOSE j \in 0..(k - 1) :
                        /\ ts[2 + 4 * j].v = key
                        /\ \A i \in 0..(k - 1) : ts[2 + 4 * i].v = key => i <= j
        IsOtherJson ==
            \/ n = 1 /\ ts[1].type \in {"str", "num", "null"}
            \/ ts = << Punct("["), Punct("]") >>
    IN  IF IsObject THEN [kind |-> "dict", obj |-> [key \in keys |-> ts[4 + 4 * last(key)]]]
        ELSE IF IsOtherJson THEN [kind |-> "other", obj |-> EmptyDict]
        ELSE [kind |-> "error", obj |-> EmptyDict]

\* -------------------------------------------------------- _command_matches
\* variant: an entry at exactly sent_after minus the margin is rejected
TimeAccepted_Strict(time, sent_after) ==
    IF time.kind = "aware" THEN time.ms > sent_after - MarginMs ELSE FALSE

\* the time check: the string is parsed (an instant with an offset, a time
\* without offset, or no ISO time), and an instant earlier than sent_after
\* minus the margin is rejected; comparing a time without offset with
\* sent_after raises, and so does the parsing of anything else: both reject
TimeAccepted(time, sent_after) ==
    IF time.kind = "aware" THEN ~(time.ms < sent_after - MarginMs) ELSE FALSE

\* one key of the match set against the parsed payload
ValueMatches(cmd_value, value) ==
    IF cmd_value.type = "str" /\ value.type = "str"
    THEN UpperOf(cmd_value.v) = UpperOf(value.v)
    ELSE cmd_value = value

\* variant: a key that the payload does not hold is skipped
DictMatches_SkipsAbsent(cmd_payload, payload_match) ==
    \A key \in DOMAIN payload_match :
        key \in DOMAIN cmd_payload => ValueMatches(cmd_payload[key], payload_match[key])

\* "for key, value in payload_match.items()" on a dict
DictMatches(cmd_payload, payload_match) ==
    \A key \in DOMAIN payload_match : ValueMatches(DictGet(cmd_payload, key), payload_match[key])

\* cmd_payload_str.replace(" ", "").replace("\n", "").lower()
RECURSIVE Normalized(_)
Normalized(text) ==
    IF text = <<>> THEN <<>>
    ELSE IF Head(text).type = "ws" THEN Normalized(Tail(text))
    ELSE << [Head(text) EXCEPT !.v = LowerOf(@)] >> \o Normalized(Tail(text))

\* the fallback after JSONDecodeError: for every key, the string
\* f'"{key}":"{value}"'.lower().replace(" ", "") is searched in the raw text
FallbackMatches(text, payload_match) ==
    LET SearchStr(key) ==
            << Str(LowerOf(key)), Punct(":"), Str(LowerOf(payload_match[key].v)) >>
        Contains(whole, part) ==
            \E i \in 1..(Len(whole) - Len(part) + 1) :
                SubSeq(whole, i, i + Len(part) - 1) = part
    IN  \A key \in DOMAIN payload_match : Contains(Normalized(text), SearchStr(key))

\* cmd.get("payload", "{}")
PayloadOf(cmd) ==
    IF cmd.payload.kind = "absent"
    THEN [kind |-> "text", text |-> << Punct("{"), Punct("}") >>, obj |-> EmptyDict]
    ELSE cmd.payload

\* variant: the payload is tested to be a dict before the keys are compared
PayloadAccepted_DictOnly(payload, payload_match) ==
    IF payload.kind = "text"
    THEN LET parsed == JsonLoads(payload.text)
         IN  IF parsed.kind = "dict" THEN DictMatches(parsed.obj, payload_match) ELSE FALSE
    ELSE IF payload.kind = "object" THEN DictMatches(payload.obj, payload_match)
    ELSE FALSE

\* the payload check.  A string is parsed; a value that is no dict has no
\* .get, which raises at the first key (and never with an empty match set)
PayloadAccepted(payload, payload_match) ==
    IF payload.kind = "text"
    THEN LET parsed == JsonLoads(payload.text)
         IN  IF parsed.kind = "dict" THEN DictMatches(parsed.obj, payload_match)
             ELSE IF parsed.kind = "other" THEN DOMAIN payload_match = {}
             ELSE FallbackMatches(payload.text, payload_match)
    ELSE IF payload.kind = "object" THEN DictMatches(payload.obj, payload_match)
    ELSE DOMAIN payload_match = {}

\* _command_matches(cmd, command_name, payload_match, sent_after)
CommandMatches(cmd, command_name, payload_match, sent_after) ==
    IF cmd.name # command_name THEN FALSE
    ELSE IF ~TimeAccepted(cmd.time, sent_after) THEN FALSE
    ELSE PayloadAccepted(PayloadOf(cmd), payload_match)

\* ---------------------------------------------------- check_command_in_log
\* str(response.get("status", "")): a missing status is "", an integer its
\* digits, a float with an integral value its digits followed by ".0"
StatusStr(status) ==
    CASE status.type = "missing" -> <<>>
      [] status.type = "float" -> status.chars \o << ".", "0" >>
      [] OTHER -> status.chars

\* status_str.replace(".0", ""): every occurrence, found from left to right
RECURSIVE ReplaceDotZero(_)
ReplaceDotZero(s) ==
    IF Len(s) < 2 THEN s
    ELSE IF s[1] = "." /\ s[2] = "0" THEN ReplaceDotZero(SubSeq(s, 3, Len(s)))
    ELSE << s[1] >> \o ReplaceDotZero(Tail(s))

\* "if response:" is false for a missing or null response and for an empty one
HasResponse(cmd) == cmd.response.kind = "dict"

\* the status of a matching entry of sentCommands
SentStatus(cmd) ==
    IF HasResponse(cmd)
    THEN IF ReplaceDotZero(StatusStr(cmd.response.status)) \in { <<"2", "0", "0">>, <<"2", "0", "4">> }
         THEN "sent_ok"
         ELSE "sent_error"
    ELSE "sent_no_response"

\* variant: the last entry that matches decides
FirstMatch_Last(list, command_name, payload_match, sent_after) ==
    LET hits == { i \in 1..Len(list) : CommandMatches(list[i], command_name, payload_match, sent_after) }
    IN  IF hits = {} THEN 0 ELSE CHOOSE i \in hits : \A j \in hits : i >= j

\* position of the first entry of list that matches, 0 when none does
FirstMatch(list, command_name, payload_match, sent_after) ==
    LET hits == { i \in 1..Len(list) : CommandMatches(list[i], command_name, payload_match, sent_after) }
    IN  IF hits = {} THEN 0 ELSE CHOOSE i \in hits : \A j \in hits : i <= j

\* variant: the sent list is scanned before the pending list
CheckCommandInLog_SentFirst(success, data, command_name, payload_match, sent_after) ==
    LET p == FirstMatch(data.pendingCommands, command_name, payload_match, sent_after)
        s == FirstMatch(data.sentCommands, command_name, payload_match, sent_after)
    IN  IF ~success
        THEN [found |-> FALSE, status |-> "not_found", response_status |-> {}, error |-> "error"]
        ELSE IF s # 0
        THEN [found |-> TRUE,
              status |-> SentStatus(data.sentCommands[s]),
              response_status |-> IF HasResponse(data.sentCommands[s])
                                  THEN { StatusStr(data.sentCommands[s].response.status) }
                                  ELSE {},
              error |-> ""]
        ELSE IF p # 0
        THEN [found |-> TRUE, status |-> "pending", response_status |-> {}, error |-> ""]
        ELSE [found |-> FALSE, status |-> "not_found", response_status |-> {}, error |-> ""]

\* check_command_in_log, given what get_commands_log returned (success, data)
CheckCommandInLog(success, data, command_name, payload_match, sent_after) ==
    LET p == FirstMatch(data.pendingCommands, command_name, payload_match, sent_after)
        s == FirstMatch(data.sentCommands, command_name, payload_match, sent_after)
    IN  IF ~success
        THEN [found |-> FALSE, status |-> "not_found", response_status |-> {}, error |-> "error"]
        ELSE IF p # 0
        THEN [found |-> TRUE, status |-> "pending", response_status |-> {}, error |-> ""]
        ELSE IF s # 0
        THEN [found |-> TRUE,
              status |-> SentStatus(data.sentCommands[s]),
              response_status |-> IF HasResponse(data.sentCommands[s])
                                  THEN { StatusStr(data.sentCommands[s].response.status) }
                                  ELSE {},
              error |-> ""]
        ELSE [found |-> FALSE, status |-> "not_found", response_status |-> {}, error |-> ""]

\* ------------------------------------------------------------- input space
\* all sequences over S of length at most n
SeqsUpTo(S, n) == UNION { [1..k -> S] : k \in 0..n }

\* sent_after of the calls
SentAfterTimes == { 60000 }

\* entry times around the margin of sent_after, and two that are no instant
EntryTimes(sent_after) ==
    { [kind |-> "aware", ms |-> sent_after + d] :
          d \in { 0 - MarginMs - 1, 0 - MarginMs, 1 - MarginMs, 0, 1000 } }
    \cup { [kind |-> "naive", ms |-> sent_after], [kind |-> "bad", ms |-> 0] }

TextPayload(ts) == [kind |-> "text", text |-> ts, obj |-> EmptyDict]
ObjectPayload(d) == [kind |-> "object", text |-> <<>>, obj |-> d]
AbsentPayload == [kind |-> "absent", text |-> <<>>, obj |-> EmptyDict]
OtherPayload == [kind |-> "other", text |-> <<>>, obj |-> EmptyDict]

\* { "key" : value } as a compact string
JsonText1(k, v) == << Punct("{"), Str(k), Punct(":"), v, Punct("}") >>

\* { "k1" : v1 , "k2" : v2 } as a compact string
JsonText2(k1, v1, k2, v2) ==
    << Punct("{"), Str(k1), Punct(":"), v1, Punct(","), Str(k2), Punct(":"), v2, Punct("}") >>

\* payloads: strings that parse to an object (compact, or laid out as the
\* device log does), strings that parse to something else, strings that do
\* not parse, objects that are no strings, null, and no payload
Payloads ==
    { AbsentPayload, OtherPayload,
      TextPayload(JsonText1("status", Str("ON"))),
      TextPayload(<< Punct("{"), Newline, Space, Space, Str("status"), Space, Punct(":"), Space,
                     Str("on"), Newline, Punct("}") >>),
      TextPayload(JsonText1("status", Str("OFF"))),
      TextPayload(JsonText1("status", Null)),
      TextPayload(JsonText1("STATUS", Str("ON"))),
      TextPayload(JsonText2("status", Str("OFF"), "status", Str("On"))),
      TextPayload(JsonText2("param", Str("COM_Digil2_Conf_Incl_Taratura"), "value", Str("1"))),
      TextPayload(JsonText2("param", Str("com_digil2_conf_incl_taratura"), "value", Num("1"))),
      TextPayload(JsonText1("value", Str("1"))),
      TextPayload(<< Punct("{"), Punct("}") >>),
      TextPayload(<< Punct("["), Punct("]") >>),
      TextPayload(<< Num("1") >>),
      TextPayload(<<>>),
      TextPayload(<< Punct("{"), Str("status"), Punct(":"), Space, Str("ON") >>),
      TextPayload(<< Punct("{"), Str("status"), Str("OFF"), Punct("}") >>),
      ObjectPayload([status |-> Str("on")]),
      ObjectPayload([param |-> Str("COM_Digil2_Conf_Incl_Taratura"), value |-> Num("1")]),
      ObjectPayload(EmptyDict) }

\* match sets: the three of ResetWorker, the empty one, one with a number
MatchSets ==
    { EmptyDict, MAINT_ON_MATCH, MAINT_OFF_MATCH, RESET_INCL_MATCH, [value |-> Num("1")] }

NoResponse == [kind |-> "absent", status |-> [type |-> "missing", chars |-> <<>>]]
EmptyResponse == [kind |-> "empty", status |-> [type |-> "missing", chars |-> <<>>]]
Response(type, chars) == [kind |-> "dict", status |-> [type |-> type, chars |-> chars]]

\* the entries tried one at a time by _command_matches: the two command
\* names and no name, every time, every payload
MatchEntries(sent_after) ==
    [ name : { "maintenance", "set_value", "none" }, time : EntryTimes(sent_after), payload : Payloads,
      response : { NoResponse } ]

\* responses: none, an empty one, one without status, numbers, and every string
\* of at most MaxStatusLen of the characters 0 2 4 .
Responses ==
    { NoResponse, EmptyResponse, Response("missing", <<>>) }
    \cup { Response(ty, ds) : ty \in {"int", "float"},
                              ds \in { <<"2", "0", "0">>, <<"2", "0", "4">>, <<"5", "0", "0">>,
                                       <<"2", "0">>, <<"2">> } }
    \cup { Response("str", cs) : cs \in SeqsUpTo({ "0", "2", "4", "." }, MaxStatusLen) }

\* an entry that matches a lookup of maintenance ON sent at sent_after
OnEntry(sent_after, response) ==
    [ name |-> "maintenance",
      time |-> [kind |-> "aware", ms |-> sent_after],
      payload |-> TextPayload(JsonText1("status", Str("ON"))),
      response |-> response ]

\* the entries the lists are made of: three that match a lookup of maintenance
\* ON (answered 200, answered 500, not answered), and three that do not (too
\* old, another payload, another name)
ListEntries(sent_after) ==
    { OnEntry(sent_after, Response("int", <<"2", "0", "0">>)),
      OnEntry(sent_after, Response("int", <<"5", "0", "0">>)),
      OnEntry(sent_after, NoResponse),
      [OnEntry(sent_after, Response("int", <<"2", "0", "0">>))
          EXCEPT !.time = [kind |-> "aware", ms |-> sent_after - MarginMs - 1]],
      [OnEntry(sent_after, Response("int", <<"2", "0", "0">>))
          EXCEPT !.payload = TextPayload(JsonText1("status", Str("OFF")))],
      [OnEntry(sent_after, Response("float", <<"2", "0", "4">>))
          EXCEPT !.name = "set_value",
                 !.payload = TextPayload(JsonText2("param", Str("COM_Digil2_Conf_Incl_Taratura"),
                                                   "value", Str("1")))] }

\* the (command_name, command_payload_match) pairs ResetWorker looks up
Lookups ==
    { << "maintenance", MAINT_ON_MATCH >>, << "maintenance", MAINT_OFF_MATCH >>,
      << "set_value", RESET_INCL_MATCH >> }

\* the result dictionary before the call returns
NoResult == [found |-> FALSE, status |-> "none", response_status |-> {}, error |-> ""]

CheckCall(ok, p, s, l, sa) ==
    [fn |-> "check", pc |-> "called", ok |-> ok, pending |-> p, sent |-> s,
     name |-> l[1], match |-> l[2], sent_after |-> sa, result |-> NoResult]

\* call is a call of _command_matches: every entry, both names, every match set
MatchCalls ==
    \E sa \in SentAfterTimes :
        \E e \in MatchEntries(sa), n \in {"maintenance", "set_value"}, m \in MatchSets :
            call = [fn |-> "match", pc |-> "called", entry |-> e, name |-> n, match |-> m,
                    sent_after |-> sa, matched |-> FALSE]

\* call is a call of check_command_in_log on lists of entries, or one in which
\* get_commands_log fails
ListCalls ==
    \E sa \in SentAfterTimes, l \in Lookups :
        \/ \E p \in SeqsUpTo(ListEntries(sa), MaxPending),
              s \in SeqsUpTo(ListEntries(sa), MaxSent) :
               call = CheckCall(TRUE, p, s, l, sa)
        \/ call = CheckCall(FALSE, <<>>, <<>>, l, sa)

\* call is a call of check_command_in_log on one matching sent entry, for
\* every response
StatusCalls ==
    \E sa \in SentAfterTimes, r \in Responses :
        call = CheckCall(TRUE, <<>>, << OnEntry(sa, r) >>, << "maintenance", MAINT_ON_MATCH >>, sa)

\* --------------------------------------------------------------- the calls
\* the variables of ResetWorker, which these calls do not touch
worker_vars == << device_ids, max_threads, run_pc, auth_ok, stop, task_pc, rec, results,
                  stats, sent_time, yielded, delivered, cleanup, obs >>

\* a call is made with arguments from the input space, no run being under way
LogInit ==
    /\ MatchCalls \/ ListCalls \/ StatusCalls
    /\ device_ids = <<>>
    /\ max_threads = 1
    /\ run_pc = "new"
    /\ auth_ok = "none"
    /\ stop = FALSE
    /\ task_pc = <<>>
    /\ rec = <<>>
    /\ results = [d \in Devices |-> 0]
    /\ stats = [total |-> 0, completed |-> 0, success |-> 0, failed |-> 0, in_progress |-> 0]
    /\ sent_time = <<>>
    /\ yielded = {}
    /\ delivered = <<>>
    /\ cleanup = [pc |-> "idle", todo |-> {}, sent |-> [d \in Devices |-> 0],
                  after_cancel |-> FALSE]
    /\ obs = <<>>

\* _command_matches returns
CommandMatchesCall ==
    /\ call.fn = "match"
    /\ call.pc = "called"
    /\ call' = [call EXCEPT !.pc = "returned",
                            !.matched = CommandMatches(call.entry, call.name, call.match,
                                                       call.sent_after)]
    /\ UNCHANGED worker_vars

\* check_command_in_log returns
CheckCommandInLogCall ==
    /\ call.fn = "check"
    /\ call.pc = "called"
    /\ call' = [call EXCEPT !.pc = "returned",
                            !.result = CheckCommandInLog(
                                call.ok,
                                [pendingCommands |-> call.pending, sentCommands |-> call.sent],
                                call.name, call.match, call.sent_after)]
    /\ UNCHANGED worker_vars

LogNext == CommandMatchesCall \/ CheckCommandInLogCall

LogSpec == LogInit /\ [][LogNext]_vars

\* ====================================================== the verification
\* VerifyWorker (verify_worker.py) and verify_inclinometer_reset
\* (api_client.py), for one device. Inclinations are in thousandths of the
\* device unit, timestamps in epoch milliseconds.

\* INCL_TOLERANCE, 0.20
Tolerance == 200

VerifyStatus ==
    [ PENDING |-> "In attesa", IN_PROGRESS |-> "In corso", VERIFIED |-> "Verificato",
      ALARM_ACTIVE |-> "Allarme attivo", INC_X_OUT_OF_RANGE |-> "Inc X fuori range",
      INC_Y_OUT_OF_RANGE |-> "Inc Y fuori range", TIMESTAMP_INVALID |-> "Dati vecchi",
      API_ERROR |-> "Errore API", PARTIAL |-> "Parziale" ]

\* a VerifyResult as its constructor leaves it
VerifyResult ==
    [ status |-> VerifyStatus.PENDING, alarm_incl |-> Null, inc_x_avg |-> Null,
      inc_y_avg |-> Null, alarm_ok |-> FALSE, inc_x_ok |-> FALSE, inc_y_ok |-> FALSE,
      timestamp_valid |-> FALSE, all_ok |-> FALSE, timestamp_delta_ms |-> Null,
      error_message |-> "" ]

\* the body get_device_data returns: a field that is Null is absent from its
\* object, an object without fields is absent from its container
Telemetry(alarm, alarm_ts, inc_x, inc_x_ts, inc_y, inc_y_ts) ==
    LET Present(S, F) == { k \in S : F[k].type # "null" }
        Object(F) == [k \in Present(DOMAIN F, F) |-> F[k]]
        Container(F) == [k \in { j \in DOMAIN F : DOMAIN F[j] # {} } |-> F[k]]
    IN Container(
         [ diags |-> Container([ALG_Digil2_Alm_Incl |->
                        Object([value |-> alarm, timestamp |-> alarm_ts])]),
           measures |-> Container([SENS_Digil2_Inc_X |->
                           Object([avg |-> inc_x, timestamp |-> inc_x_ts]),
                                   SENS_Digil2_Inc_Y |->
                           Object([avg |-> inc_y, timestamp |-> inc_y_ts])]) ])

InclinationOk_Strict(avg, tolerance) ==
    IF avg.type # "null"
    THEN (IF avg.v < 0 THEN -avg.v ELSE avg.v) < tolerance
    ELSE FALSE

\* inc_x_ok, inc_y_ok: abs(avg) <= tolerance when there is a value
InclinationOk(avg, tolerance) ==
    IF avg.type # "null"
    THEN (IF avg.v < 0 THEN -avg.v ELSE avg.v) <= tolerance
    ELSE FALSE

\* verify_inclinometer_reset after get_device_data has returned
\* (success, data, error)
VerifyInclinometerReset(success, data, error, reset_timestamp, tolerance) ==
    LET result == [ api_success |-> FALSE, alarm_incl |-> Null,
                    alarm_incl_timestamp |-> Null, inc_x_avg |-> Null,
                    inc_x_timestamp |-> Null, inc_y_avg |-> Null, inc_y_timestamp |-> Null,
                    alarm_ok |-> FALSE, inc_x_ok |-> FALSE, inc_y_ok |-> FALSE,
                    timestamp_valid |-> FALSE, all_ok |-> FALSE,
                    timestamp_delta_ms |-> Null, error |-> "" ]
        GetDict(d, k) == IF k \in DOMAIN d THEN d[k] ELSE EmptyDict
        alm_incl == GetDict(GetDict(data, "diags"), "ALG_Digil2_Alm_Incl")
        inc_x == GetDict(GetDict(data, "measures"), "SENS_Digil2_Inc_X")
        inc_y == GetDict(GetDict(data, "measures"), "SENS_Digil2_Inc_Y")
        alarm_incl == DictGet(alm_incl, "value")
        inc_x_avg == DictGet(inc_x, "avg")
        inc_y_avg == DictGet(inc_y, "avg")
        data_timestamps == << DictGet(alm_incl, "timestamp"), DictGet(inc_x, "timestamp"),
                              DictGet(inc_y, "timestamp") >>
        valid_timestamps == { i \in 1..3 : data_timestamps[i].type # "null" }
        latest_timestamp ==
            data_timestamps[CHOOSE i \in valid_timestamps :
                \A j \in valid_timestamps : data_timestamps[j].v <= data_timestamps[i].v].v
        alarm_ok == IF alarm_incl.type # "null" THEN alarm_incl.v = FALSE ELSE FALSE
        inc_x_ok == InclinationOk(inc_x_avg, tolerance)
        inc_y_ok == InclinationOk(inc_y_avg, tolerance)
        timestamp_valid == IF valid_timestamps # {} THEN latest_timestamp > reset_timestamp
                           ELSE FALSE
    IN IF ~success THEN [result EXCEPT !.error = error]
       ELSE [result EXCEPT
                !.api_success = TRUE,
                !.alarm_incl = alarm_incl,
                !.alarm_incl_timestamp = data_timestamps[1],
                !.inc_x_avg = inc_x_avg,
                !.inc_x_timestamp = data_timestamps[2],
                !.inc_y_avg = inc_y_avg,
                !.inc_y_timestamp = data_timestamps[3],
                !.alarm_ok = alarm_ok,
                !.inc_x_ok = inc_x_ok,
                !.inc_y_ok = inc_y_ok,
                !.timestamp_valid = timestamp_valid,
                !.timestamp_delta_ms = IF valid_timestamps # {}
                                       THEN Num(latest_timestamp - reset_timestamp)
                                       ELSE Null,
                !.all_ok = alarm_ok /\ inc_x_ok /\ inc_y_ok /\ timestamp_valid]

\* _verify_single_device after verify_inclinometer_reset has returned
\* verify_data: the VerifyResult it returns, or the exception it raises when
\* a failed inclination check has no value to format with ":.3f"
VerifySingleDevice(verify_data) ==
    LET result == [VerifyResult EXCEPT
                      !.alarm_incl = verify_data.alarm_incl,
                      !.inc_x_avg = verify_data.inc_x_avg,
                      !.inc_y_avg = verify_data.inc_y_avg,
                      !.alarm_ok = verify_data.alarm_ok,
                      !.inc_x_ok = verify_data.inc_x_ok,
                      !.inc_y_ok = verify_data.inc_y_ok,
                      !.timestamp_valid = verify_data.timestamp_valid,
                      !.all_ok = verify_data.all_ok,
                      !.timestamp_delta_ms = verify_data.timestamp_delta_ms]
        status == IF ~result.alarm_ok THEN VerifyStatus.ALARM_ACTIVE
                  ELSE IF ~result.timestamp_valid THEN VerifyStatus.TIMESTAMP_INVALID
                  ELSE IF ~result.inc_x_ok THEN VerifyStatus.INC_X_OUT_OF_RANGE
                  ELSE IF ~result.inc_y_ok THEN VerifyStatus.INC_Y_OUT_OF_RANGE
                  ELSE VerifyStatus.PARTIAL
    IN IF verify_data.error # ""
       THEN [raised |-> FALSE, counted |-> "failed",
             result |-> [result EXCEPT !.error_message = verify_data.error,
                                       !.status = VerifyStatus.API_ERROR]]
       ELSE IF result.all_ok
       THEN [raised |-> FALSE, counted |-> "verified",
             result |-> [result EXCEPT !.status = VerifyStatus.VERIFIED]]
       ELSE IF \/ ~result.inc_x_ok /\ result.inc_x_avg.type = "null"
               \/ ~result.inc_y_ok /\ result.inc_y_avg.type = "null"
       THEN [raised |-> TRUE, counted |-> "none",
             result |-> [result EXCEPT !.status = VerifyStatus.IN_PROGRESS]]
       ELSE [raised |-> FALSE, counted |-> "failed",
             result |-> [result EXCEPT !.error_message = "issues", !.status = status]]

\* ------------------------------------------------------------ the run
\* a ResetWorker that has not run
NoRun ==
    /\ device_ids = <<>>
    /\ max_threads = 1
    /\ run_pc = "new"
    /\ auth_ok = "none"
    /\ stop = FALSE
    /\ task_pc = <<>>
    /\ rec = <<>>
    /\ results = [d \in Devices |-> 0]
    /\ stats = [total |-> 0, completed |-> 0, success |-> 0, failed |-> 0, in_progress |-> 0]
    /\ sent_time = <<>>
    /\ yielded = {}
    /\ delivered = <<>>
    /\ cleanup = [pc |-> "idle", todo |-> {}, sent |-> [d \in Devices |-> 0],
                  after_cancel |-> FALSE]
    /\ obs = <<>>

\* a VerifyWorker before run() is called with one device, reset at 1000 ms
VerifyInit ==
    /\ NoRun
    /\ call = [ fn |-> "verify", pc |-> "new", reset_timestamp |-> ToEpochMs(1),
                stop |-> FALSE,           \* _stop_flag
                stats |-> [total |-> 0, completed |-> 0, verified |-> 0, failed |-> 0,
                           in_progress |-> 0],
                results |-> <<>>,         \* _results
                reported |-> <<>>,        \* records handed to device_complete_callback
                gets |-> 0,               \* GET requests of get_device_data
                replies |-> <<>>,         \* what each was answered
                invalidated |-> FALSE,    \* _handle_token_refresh invalidated the token
                read |-> [success |-> FALSE, error |-> ""],
                fields |-> <<>>,          \* the six values of the body read
                verify_data |-> VerifyInclinometerReset(FALSE, EmptyDict, "", 0, Tolerance),
                task |-> [raised |-> FALSE, counted |-> "none", result |-> VerifyResult] ]

\* run() up to the dispatch: reset(), validate_config, submit
VerifyRun(ok) ==
    /\ call.fn = "verify"
    /\ call.pc = "new"
    /\ call' = IF ok
               THEN [call EXCEPT !.pc = "submitted", !.stop = FALSE, !.stats.total = 1]
               ELSE [call EXCEPT !.pc = "returned", !.stop = FALSE, !.stats.total = 1,
                                 !.results = << [VerifyResult EXCEPT
                                                   !.status = VerifyStatus.API_ERROR,
                                                   !.error_message = "Auth error"] >>]
    /\ UNCHANGED worker_vars

\* stop()
VerifyStop ==
    /\ call.fn = "verify"
    /\ call.pc # "returned"
    /\ ~call.stop
    /\ call' = [call EXCEPT !.stop = TRUE]
    /\ UNCHANGED worker_vars

\* _verify_single_device up to the call of verify_inclinometer_reset
VerifyTaskStart ==
    /\ call.fn = "verify"
    /\ call.pc = "submitted"
    /\ call' = [call EXCEPT !.pc = "reading", !.stats.in_progress = @ + 1]
    /\ UNCHANGED worker_vars

\* the six values of a body: alarm value and timestamp, then average and
\* timestamp of each inclination; Null is a field that is missing
TelemetryFields ==
    LET timestamps == { Null, Num(ToEpochMs(1) - 1), Num(ToEpochMs(1)), Num(ToEpochMs(1) + 1) }
        averages == { Null, Num(-Tolerance - 1), Num(-Tolerance), Num(50), Num(Tolerance),
                      Num(Tolerance + 1) }
        alarms == { Null, [type |-> "bool", v |-> FALSE], [type |-> "bool", v |-> TRUE] }
    IN alarms \X timestamps \X averages \X timestamps \X averages \X timestamps

\* what a request of get_device_data can be answered; "token" is get_token
\* raising inside _get_headers, before any request is made
Replies == { "200", "401", "403", "500", "Timeout", "Connessione fallita", "token" }

GetDeviceData_RetriesFailure(reply) ==
    /\ call.fn = "verify"
    /\ call.pc = "reading"
    /\ \E f \in IF reply = "200" THEN TelemetryFields ELSE { <<>> } : call' =
        IF reply = "token"
        THEN [call EXCEPT !.pc = "read", !.read = [success |-> FALSE, error |-> "token"]]
        ELSE IF reply # "200" /\ call.gets = 0
        THEN [call EXCEPT !.gets = 1, !.replies = Append(@, reply), !.invalidated = TRUE]
        ELSE [call EXCEPT
                 !.gets = @ + 1,
                 !.replies = Append(@, reply),
                 !.pc = "read",
                 !.read = IF reply = "200" THEN [success |-> TRUE, error |-> ""]
                          ELSE [success |-> FALSE, error |-> reply],
                 !.fields = f]
    /\ UNCHANGED worker_vars

\* get_device_data: one request, and a second one when the first is answered
\* 401 or 403; the body f is read from an answer 200
GetDeviceData(reply) ==
    /\ call.fn = "verify"
    /\ call.pc = "reading"
    /\ \E f \in IF reply = "200" THEN TelemetryFields ELSE { <<>> } : call' =
        IF reply = "token"
        THEN [call EXCEPT !.pc = "read", !.read = [success |-> FALSE, error |-> "token"]]
        ELSE IF reply \in {"401", "403"} /\ call.gets = 0
        THEN [call EXCEPT !.gets = 1, !.replies = Append(@, reply), !.invalidated = TRUE]
        ELSE [call EXCEPT
                 !.gets = @ + 1,
                 !.replies = Append(@, reply),
                 !.pc = "read",
                 !.read = IF reply = "200" THEN [success |-> TRUE, error |-> ""]
                          ELSE [success |-> FALSE, error |-> reply],
                 !.fields = f]
    /\ UNCHANGED worker_vars

\* the rest of verify_inclinometer_reset and of _verify_single_device
VerifyTask ==
    /\ call.fn = "verify"
    /\ call.pc = "read"
    /\ LET f == call.fields
           data == IF call.read.success
                   THEN Telemetry(f[1], f[2], f[3], f[4], f[5], f[6])
                   ELSE EmptyDict
           verify_data == VerifyInclinometerReset(call.read.success, data, call.read.error,
                                                  call.reset_timestamp, Tolerance)
           task == VerifySingleDevice(verify_data)
       IN call' = [call EXCEPT
                      !.pc = "finished",
                      !.verify_data = verify_data,
                      !.task = task,
                      !.stats = IF task.raised THEN @
                                ELSE [@ EXCEPT ![task.counted] = @ + 1,
                                               !.in_progress = @ - 1,
                                               !.completed = @ + 1]]
    /\ UNCHANGED worker_vars

\* run() at the future as_completed yields, and its return
VerifyCollect ==
    /\ call.fn = "verify"
    /\ call.pc = "finished"
    /\ LET result == IF call.task.raised
                     THEN [VerifyResult EXCEPT !.status = VerifyStatus.API_ERROR,
                                               !.error_message = "unsupported format string"]
                     ELSE call.task.result
       IN call' = IF call.stop
                  THEN [call EXCEPT !.pc = "returned"]
                  ELSE [call EXCEPT !.pc = "returned",
                                    !.results = Append(@, result),
                                    !.reported = Append(@, result)]
    /\ UNCHANGED worker_vars

VerifySpec ==
    VerifyInit /\ [][ \/ \E ok \in BOOLEAN : VerifyRun(ok)
                      \/ VerifyStop
                      \/ VerifyTaskStart
                      \/ \E reply \in Replies : GetDeviceData(reply)
                      \/ VerifyTask
                      \/ VerifyCollect ]_vars

\* ====================================================== the bearer token
\* TokenManager and send_command (api_client.py), with two worker threads
\* that call send_command and one thread that calls validate_config (run()
\* of either worker, or the window starting the other phase). Time is the
\* number of POST requests made so far.

MaxCalls == 1     \* send_command calls followed per worker thread
MaxFetches == 2   \* token requests followed

\* a TokenManager as constructed, no thread inside it
TokenInit ==
    /\ NoRun
    /\ call = [ fn |-> "token",
                token |-> 0,          \* _token: 0 is None, n the n-th token requested
                fresh |-> FALSE,      \* time.time() < _token_expiry - REFRESH_MARGIN
                lock |-> "free",      \* holder of _lock
                fetches |-> 0,        \* calls of _fetch_new_token so far
                clock |-> 0,
                invalidated |-> {},   \* tokens that invalidate() has cleared
                th |-> [ t \in {"w1", "w2", "v"} |->
                           [ pc |-> "idle", calls |-> 0, attempts |-> 0, req |-> 0, tok |-> 0,
                             sent_time |-> 0, replies |-> <<>>, post_times |-> <<>>,
                             token_error |-> FALSE, result |-> "none" ] ] ]

\* the send loop of a phase: the attempt counter grows, send_command is
\* called and reads the time
SendCommand(w) ==
    /\ call.fn = "token"
    /\ w # "v"
    /\ call.th[w].pc = "idle"
    /\ call.th[w].calls < MaxCalls
    /\ call' = [call EXCEPT !.th[w] = [@ EXCEPT !.pc = "headers",
                                                 !.calls = @ + 1,
                                                 !.attempts = @ + 1,
                                                 !.sent_time = call.clock,
                                                 !.replies = <<>>,
                                                 !.post_times = <<>>,
                                                 !.token_error = FALSE,
                                                 !.result = "none"]]
    /\ UNCHANGED worker_vars

\* get_token (called by _get_headers): under the lock, a valid token is
\* returned, otherwise _fetch_new_token is called
GetToken(w) ==
    /\ call.fn = "token"
    /\ call.th[w].pc = "headers"
    /\ call.lock = "free"
    /\ IF call.token # 0 /\ call.fresh
       THEN call' = [call EXCEPT !.th[w].pc = "post", !.th[w].tok = call.token]
       ELSE /\ call.fetches < MaxFetches
            /\ call' = [call EXCEPT !.lock = w,
                                    !.fetches = @ + 1,
                                    !.th[w].pc = "fetching",
                                    !.th[w].req = call.fetches + 1]
    /\ UNCHANGED worker_vars

\* validate_config: _fetch_new_token is called, without the lock
ValidateConfig ==
    /\ call.fn = "token"
    /\ call.th["v"].pc = "idle"
    /\ call.fetches < MaxFetches
    /\ call' = [call EXCEPT !.fetches = @ + 1,
                            !.th["v"].pc = "fetching",
                            !.th["v"].req = call.fetches + 1]
    /\ UNCHANGED worker_vars

\* _fetch_new_token returns a token or raises. In get_token the token and its
\* expiry are stored, the token is returned and the lock released (released
\* also when it raises, and send_command returns a failure); in
\* validate_config they are stored
FetchNewToken(t, ok) ==
    /\ call.fn = "token"
    /\ call.th[t].pc = "fetching"
    /\ call' =
        IF t = "v"
        THEN IF ok
             THEN [call EXCEPT !.token = call.th[t].req, !.fresh = TRUE, !.th[t].pc = "idle"]
             ELSE [call EXCEPT !.th[t].pc = "idle"]
        ELSE IF ok
             THEN [call EXCEPT !.token = call.th[t].req, !.fresh = TRUE, !.lock = "free",
                               !.th[t].pc = "post", !.th[t].tok = call.th[t].req]
             ELSE [call EXCEPT !.lock = "free", !.th[t].pc = "idle",
                               !.th[t].token_error = TRUE, !.th[t].result = "failed"]
    /\ UNCHANGED worker_vars

\* requests.post and what follows the response: the first response of a call
\* goes through _handle_token_refresh, the last one through raise_for_status
Post(w, reply) ==
    /\ call.fn = "token"
    /\ call.th[w].pc = "post"
    /\ call' = [call EXCEPT
                   !.clock = @ + 1,
                   !.th[w] = [@ EXCEPT
                       !.replies = Append(@, reply),
                       !.post_times = Append(@, call.clock + 1),
                       !.pc = IF reply \in {"401", "403"} /\ call.th[w].replies = <<>>
                              THEN "refresh" ELSE "idle",
                       !.result = IF reply \in {"401", "403"} /\ call.th[w].replies = <<>>
                                  THEN "none"
                                  ELSE IF reply = "200" THEN "accepted" ELSE "failed"]]
    /\ UNCHANGED worker_vars

Invalidate_KeepsToken(w) ==
    /\ call.fn = "token"
    /\ call.th[w].pc = "refresh"
    /\ call.lock = "free"
    /\ call' = [call EXCEPT !.invalidated = @ \cup ({call.token} \ {0}),
                            !.th[w].pc = "headers",
                            !.th[w].sent_time = call.clock]
    /\ UNCHANGED worker_vars

Invalidate_KeepsTime(w) ==
    /\ call.fn = "token"
    /\ call.th[w].pc = "refresh"
    /\ call.lock = "free"
    /\ call' = [call EXCEPT !.token = 0,
                            !.fresh = FALSE,
                            !.invalidated = @ \cup ({call.token} \ {0}),
                            !.th[w].pc = "headers"]
    /\ UNCHANGED worker_vars

\* _handle_token_refresh after a 401 or 403: invalidate() under the lock;
\* then send_command reads the time again
Invalidate(w) ==
    /\ call.fn = "token"
    /\ call.th[w].pc = "refresh"
    /\ call.lock = "free"
    /\ call' = [call EXCEPT !.token = 0,
                            !.fresh = FALSE,
                            !.invalidated = @ \cup ({call.token} \ {0}),
                            !.th[w].pc = "headers",
                            !.th[w].sent_time = call.clock]
    /\ UNCHANGED worker_vars

\* time passes the refresh margin of the stored token
Expire ==
    /\ call.fn = "token"
    /\ call.token # 0
    /\ call.fresh
    /\ call' = [call EXCEPT !.fresh = FALSE]
    /\ UNCHANGED worker_vars

TokenSpec ==
    TokenInit /\ [][ \/ \E w \in {"w1", "w2"} :
                           \/ SendCommand(w)
                           \/ GetToken(w)
                           \/ \E reply \in {"200", "401", "403", "500"} : Post(w, reply)
                           \/ Invalidate(w)
                     \/ ValidateConfig
                     \/ \E t \in {"w1", "w2", "v"}, ok \in BOOLEAN : FetchNewToken(t, ok)
                     \/ Expire ]_vars

\* ============================================================== properties
\* a ResetResult exists for list position t (a stored record is never PENDING)
HasRecord(t) == rec[t].status # PENDING

\* the record _results holds for device d
RecordOf(d) == rec[results[d]]

\* C1: after a run cancelled with stop() whose tasks have all returned, one
\* call of send_maintenance_off_to_pending sends exactly one maintenance OFF
\* to each device whose record has has_maintenance_on_pending.
C1_CleanupSendsToEveryPending ==
    (cleanup.pc = "done" /\ cleanup.after_cancel) =>
        \A d \in Devices :
            (results[d] # 0 /\ RecordOf(d).has_maintenance_on_pending) => cleanup.sent[d] = 1

\* C2 as stated: the flag is true iff the latest accepted maintenance-ON send
\* has not been followed by a confirmed maintenance OFF.
C2_FlagIffOnSendOutstanding ==
    \A t \in Tasks :
        HasRecord(t) => (rec[t].has_maintenance_on_pending <=> obs[t].on_outstanding)

\* C2 amended: the flag is true iff the latest accepted maintenance-ON send, or
\* a pre-check that read maintenanceMode = ON, has not been followed by a
\* confirmed maintenance OFF.
C2_FlagIffOnOrPreCheckOutstanding ==
    \A t \in Tasks :
        HasRecord(t) =>
            (rec[t].has_maintenance_on_pending <=>
                (obs[t].on_outstanding \/ (obs[t].precheck_on /\ ~obs[t].off_confirmed)))

\* C2 witness: a flag set by an accepted send and cleared by a confirmed OFF
C2_Witness ==
    \E t \in Tasks :
        obs[t].on_accepted /\ obs[t].off_confirmed /\ ~rec[t].has_maintenance_on_pending

\* C3: once a maintenance-ON send was accepted the flag is true in every later
\* state (the INTERRUPTED record included) until maintenance OFF is confirmed,
\* and the only step that clears the flag is that confirmation (the
\* configuration read OFF that follows the log's sent_ok).
C3_FlagHeldUntilOffConfirmed ==
    [][ \A t \in Tasks :
          /\ (obs'[t].on_accepted /\ ~obs'[t].off_confirmed) => rec'[t].has_maintenance_on_pending
          /\ (rec[t].has_maintenance_on_pending /\ ~rec'[t].has_maintenance_on_pending) =>
                /\ task_pc[t] = "off_verify"
                /\ ~obs[t].off_confirmed /\ obs'[t].off_confirmed
                /\ rec'[t].maintenance_state = "OFF" ]_vars

\* C3 witness: an interrupted record whose maintenance-ON send was accepted
C3_Witness ==
    \E t \in Tasks :
        /\ task_pc[t] = "done" /\ rec[t].status = INTERRUPTED
        /\ obs[t].on_accepted /\ rec[t].has_maintenance_on_pending

\* C4 as stated: reset_timestamp is non-null iff the log lookup of the reset
\* command returned sent_ok (reset_inclinometro = OK).
C4_TimestampIffResetConfirmed ==
    \A t \in Tasks :
        HasRecord(t) =>
            (rec[t].reset_timestamp # {} <=>
                (obs[t].reset_ok_seen /\ rec[t].reset_inclinometro = OK))

\* C4 amended: reset_timestamp is non-null iff a reset send has been accepted;
\* reset_inclinometro = OK iff the log lookup returned sent_ok, and then the
\* timestamp is set (the converse fails while the confirmation is awaited and
\* in records interrupted before it).
C4_TimestampIffResetAccepted ==
    \A t \in Tasks :
        HasRecord(t) =>
            /\ rec[t].reset_timestamp # {} <=> obs[t].reset_accepted
            /\ rec[t].reset_inclinometro = OK <=> obs[t].reset_ok_seen
            /\ rec[t].reset_inclinometro = OK => rec[t].reset_timestamp # {}

\* C4 witness: an interrupted record with a timestamp and no confirmation
C4_Witness ==
    \E t \in Tasks :
        /\ task_pc[t] = "done" /\ rec[t].status = INTERRUPTED
        /\ rec[t].reset_timestamp # {} /\ rec[t].reset_inclinometro # OK

\* C5: every COMPLETED record has reset_timestamp set and its reset confirmed
\* by sent_ok; none has one without the other.
C5_CompletedHasTimestampAndConfirmation ==
    \A t \in Tasks :
        rec[t].current_phase = COMPLETED =>
            /\ rec[t].reset_timestamp # {}
            /\ rec[t].reset_inclinometro = OK
            /\ obs[t].reset_ok_seen

\* C5 witness: a completed record
C5_Witness == \E t \in Tasks : rec[t].current_phase = COMPLETED /\ task_pc[t] = "done"

\* C6 as stated: once assigned, reset_timestamp never changes.
C6_TimestampNeverChanges ==
    [][ \A t \in Tasks :
          rec[t].reset_timestamp # {} => rec'[t].reset_timestamp = rec[t].reset_timestamp ]_vars

\* C6 amended: reset_timestamp never changes once the reset is confirmed
\* (reset_inclinometro = OK); before that it changes only when a reset send is
\* accepted, which overwrites it with the acceptance time of that send.
C6_TimestampFixedOnceConfirmed ==
    [][ \A t \in Tasks :
          /\ rec[t].reset_inclinometro = OK => rec'[t].reset_timestamp = rec[t].reset_timestamp
          /\ rec'[t].reset_timestamp # rec[t].reset_timestamp =>
                /\ task_pc[t] = "rs_send" /\ task_pc'[t] = "rs_sleep"
                /\ rec'[t].reset_timestamp = {ToEpochMs(sent_time'[t])} ]_vars

\* C6 witness: a confirmed reset whose timestamp is that of a resend
C6_Witness ==
    \E t \in Tasks :
        /\ rec[t].reset_inclinometro = OK
        /\ rec[t].reset_attempts >= 2
        /\ rec[t].reset_timestamp = {ToEpochMs(Now(rec[t]) - rec[t].maint_off_attempts)}
        /\ rec[t].maint_off_attempts >= 1

\* the task was stopped while its record was in MAINTENANCE_ON_CHECKING_LOG
StoppedCheckingOnLog(t) == obs[t].phase_at_stop = MAINTENANCE_ON_CHECKING_LOG

\* what C7 says of such a task in every state
C7_Safe(t) ==
    /\ rec[t].has_maintenance_on_pending
    /\ rec[t].reset_attempts = 0
    /\ rec[t].maint_off_attempts = 0
    /\ obs[t].first_cmd = "maintenance_on"
    /\ rec[t].status \in {MAINT_ON, INTERRUPTED}
    /\ task_pc[t] = "done" => rec[t].status = INTERRUPTED

C8_AuthFailureFailsFast ==
    auth_ok = "failed" =>
        /\ \A t \in Tasks :
              /\ task_pc[t] = "unsubmitted"
              /\ ~obs[t].net_called
              /\ Now(rec[t]) = 0
              /\ results[device_ids[t]] # 0
              /\ RecordOf(device_ids[t]).status = ERROR
        /\ \A d \in Devices : results[d] # 0 => \E t \in Tasks : device_ids[t] = d
        /\ \A d \in Devices : cleanup.sent[d] = 0
        /\ run_pc = "returned"

\* C8 witness: authentication failed for a list of two entries
C8_Witness == auth_ok = "failed" /\ Len(device_ids) = 2 /\ cleanup.pc = "done"

\* C9: when the pre-check reads maintenanceMode = ON, no maintenance-ON command
\* is sent (maint_on_attempts stays 0), phase 1 is recorded as already on, the
\* first command sent is the reset, and the flag is true from the pre-check
\* until maintenance OFF is confirmed.
C9_PreCheckOnSkipsPhase1 ==
    \A t \in Tasks :
        obs[t].precheck_on =>
            /\ rec[t].manutenzione_on = GIA_ON
            /\ rec[t].maint_on_attempts = 0
            /\ ~obs[t].on_accepted
            /\ obs[t].first_cmd \in {"none", "reset"}
            /\ rec[t].has_maintenance_on_pending <=> ~obs[t].off_confirmed

\* C9 witness: a task that skipped phase 1, sent the reset first and had
\* maintenance OFF confirmed
C9_Witness ==
    \E t \in Tasks :
        obs[t].precheck_on /\ obs[t].first_cmd = "reset" /\ obs[t].off_confirmed

\* C10: a task sends the reset command only after maintenance ON is confirmed
\* (pre-check ON, or log sent_ok followed by configuration ON), and sends
\* maintenance OFF only after the reset's log lookup returned sent_ok.
C10_PhasesInOrder ==
    \A t \in Tasks :
        /\ rec[t].reset_attempts > 0 => obs[t].on_confirmed
        /\ rec[t].maint_off_attempts > 0 => obs[t].reset_ok_seen

\* C10 witness: a task that sent all three commands
C10_Witness ==
    \E t \in Tasks :
        obs[t].on_accepted /\ rec[t].reset_attempts > 0 /\ rec[t].maint_off_attempts > 0

\* C11: once the stop flag is set, a task that has not started never runs: it
\* stays queued or is cancelled, it creates no record and makes no network call.
C11_UnstartedNeverRunsAfterStop ==
    [][ \A t \in Tasks :
          (stop /\ task_pc[t] = "queued") =>
              /\ task_pc'[t] \in {"queued", "cancelled"}
              /\ ~HasRecord(t)'
              /\ ~obs'[t].net_called ]_vars

\* where a task is after send_command returned a failure, and the loop head
\* and the send that follow it
C12_Retry == [ on_backoff |-> << "on_head", "on_send" >>,
               rs_backoff |-> << "rs_head", "rs_send" >>,
               off_backoff |-> << "off_head", "off_send" >> ]

PhaseRank(p) == CHOOSE i \in 1..Len(PhaseOrder) : PhaseOrder[i] = p

\* the send state of the phase that p belongs to
C13_SendStateOf(p) ==
    IF p \in {MAINTENANCE_ON_CHECKING_LOG, MAINTENANCE_ON_VERIFYING} THEN MAINTENANCE_ON_SENDING
    ELSE IF p = RESET_CHECKING_LOG THEN RESET_SENDING
    ELSE IF p \in {MAINTENANCE_OFF_CHECKING_LOG, MAINTENANCE_OFF_VERIFYING} THEN MAINTENANCE_OFF_SENDING
    ELSE "none"

\* C13 as stated: current_phase only moves forward in the order of the
\* process; the only backward moves are from a phase's poll or verify state to
\* the same phase's send state on a retry (the phase's command was sent before).
C13_PhaseForwardOrBackToSend ==
    [][ \A t \in Tasks :
          LET p == rec[t].current_phase
              q == rec'[t].current_phase
          IN  PhaseRank(q) < PhaseRank(p) =>
                  /\ q = C13_SendStateOf(p)
                  /\ Now(rec[t]) >= 1 ]_vars

\* C13 amended: current_phase only moves forward, except for two moves inside
\* one phase: from the verify state to the send state of maintenance ON, once,
\* when the pre-check (which sets the verify state before any send) did not
\* read ON; and from the verify state to the poll state of maintenance ON or
\* OFF when the command is accepted again after a verification that failed.
\* A retry never moves the phase back to the send state.
C13_PhaseForwardOrWithinPhase ==
    [][ \A t \in Tasks :
          LET p == rec[t].current_phase
              q == rec'[t].current_phase
          IN  /\ PhaseRank(q) < PhaseRank(p) =>
                    \/ /\ p = MAINTENANCE_ON_VERIFYING /\ q = MAINTENANCE_ON_SENDING
                       /\ task_pc[t] = "precheck" /\ Now(rec[t]) = 0
                    \/ /\ p = MAINTENANCE_ON_VERIFYING /\ q = MAINTENANCE_ON_CHECKING_LOG
                       /\ task_pc[t] = "on_send" /\ rec[t].maint_on_attempts >= 2
                    \/ /\ p = MAINTENANCE_OFF_VERIFYING /\ q = MAINTENANCE_OFF_CHECKING_LOG
                       /\ task_pc[t] = "off_send" /\ rec[t].maint_off_attempts >= 2
              /\ (Now(rec'[t]) > Now(rec[t]) /\ Now(rec[t]) >= 1) => q = p ]_vars

\* C13 witness: maintenance ON is being sent again after a verification that
\* failed, and the record still shows the verify state
C13_Witness ==
    \E t \in Tasks :
        /\ task_pc[t] = "on_send"
        /\ rec[t].current_phase = MAINTENANCE_ON_VERIFYING
        /\ rec[t].maint_on_attempts >= 2

\* C14: in every record whose reset is confirmed, reset_timestamp is the
\* client's sent_time of the last reset send, and that sent_time is the
\* sent_after argument of the lookup that returned sent_ok; the lookup itself
\* never writes reset_timestamp (no time of the log reaches the record).
C14_TimestampIsLastSendTime ==
    [][ \A t \in Tasks :
          /\ rec'[t].reset_inclinometro = OK =>
                /\ obs'[t].reset_ok_seen
                /\ obs'[t].ok_sent_after = rec'[t].maint_on_attempts + rec'[t].reset_attempts
                /\ rec'[t].reset_timestamp = {ToEpochMs(obs'[t].ok_sent_after)}
          /\ task_pc[t] = "rs_lookup" => rec'[t].reset_timestamp = rec[t].reset_timestamp ]_vars

\* C14 witness: a reset confirmed at its second accepted send, the task being
\* about to leave phase 2
C14_Witness ==
    \E t \in Tasks :
        /\ task_pc[t] = "after2"
        /\ rec[t].reset_inclinometro = OK
        /\ rec[t].reset_attempts = 2
        /\ rec[t].current_phase = RESET_CHECKING_LOG
        /\ rec[t].reset_timestamp = {ToEpochMs(sent_time[t])}

\* a call of check_command_in_log has returned after get_commands_log succeeded
CheckReturned == call.fn = "check" /\ call.pc = "returned" /\ call.ok

\* entry e matches the call
EntryMatches(e) == CommandMatches(e, call.name, call.match, call.sent_after)

\* some entry of list matches the call
AnyMatch(list) == \E i \in 1..Len(list) : EntryMatches(list[i])

\* list[i] matches the call and no entry before it does
IsFirstMatch(list, i) ==
    /\ i \in 1..Len(list)
    /\ EntryMatches(list[i])
    /\ \A j \in 1..(i - 1) : ~EntryMatches(list[j])

\* s with one trailing ".0" removed
C15_WithoutTrailingDotZero(s) ==
    IF Len(s) >= 2 /\ s[Len(s) - 1] = "." /\ s[Len(s)] = "0"
    THEN SubSeq(s, 1, Len(s) - 2)
    ELSE s

\* C15: a matching sent entry with a response is sent_ok exactly when its
\* status string, with one trailing ".0" removed, is 200 or 204, and sent_error
\* otherwise; a matching sent entry with no response is sent_no_response.
C15_SentOkIffStatus200Or204 ==
    (CheckReturned /\ ~AnyMatch(call.pending)) =>
        \A i \in 1..Len(call.sent) :
            IsFirstMatch(call.sent, i) =>
                LET r == call.sent[i].response
                IN  /\ r.kind = "dict" =>
                          call.result.status =
                              IF C15_WithoutTrailingDotZero(StatusStr(r.status))
                                     \in { <<"2", "0", "0">>, <<"2", "0", "4">> }
                              THEN "sent_ok"
                              ELSE "sent_error"
                    /\ r.kind = "absent" => call.result.status = "sent_no_response"

\* C16: when get_commands_log succeeds, the result is pending whenever an
\* entry of the pending list matches, whatever the sent list holds; a status
\* of the sent list is returned only when no pending entry matches and a sent
\* entry does; and when no entry of either list matches the result is
\* not_found, with found false.
C16_PendingListFirst ==
    CheckReturned =>
        /\ AnyMatch(call.pending) => (call.result.status = "pending" /\ call.result.found)
        /\ call.result.status \in {"sent_ok", "sent_error", "sent_no_response"} <=>
               (~AnyMatch(call.pending) /\ AnyMatch(call.sent))
        /\ (~AnyMatch(call.pending) /\ ~AnyMatch(call.sent)) <=>
               (call.result.status = "not_found" /\ ~call.result.found)
        /\ call.result.error = ""

\* C16 witness: the second pending entry matches while the sent list holds a
\* matching entry answered 200
C16_Witness ==
    /\ CheckReturned
    /\ IsFirstMatch(call.pending, 2)
    /\ \E i \in 1..Len(call.sent) :
          /\ EntryMatches(call.sent[i])
          /\ call.sent[i].response = Response("int", <<"2", "0", "0">>)
    /\ call.result.status = "pending"

\* C17: when no pending entry matches, the result is the one of the first
\* sent entry that matches: the entries after it change nothing (the result
\* is that of the call on the list cut after that entry), and a first match
\* without response or answered 500 is never reported as sent_ok.
C17_FirstSentMatchDecides ==
    (CheckReturned /\ ~AnyMatch(call.pending)) =>
        \A i \in 1..Len(call.sent) :
            IsFirstMatch(call.sent, i) =>
                /\ call.result =
                       CheckCommandInLog(TRUE,
                                         [pendingCommands |-> call.pending,
                                          sentCommands |-> SubSeq(call.sent, 1, i)],
                                         call.name, call.match, call.sent_after)
                /\ call.sent[i].response = NoResponse =>
                       call.result.status = "sent_no_response"
                /\ call.sent[i].response = Response("int", <<"5", "0", "0">>) =>
                       call.result.status = "sent_error"

\* C17 witness: a matching entry answered 500 (or not answered) is followed
\* by a matching entry answered 200
C17_Witness ==
    /\ CheckReturned
    /\ ~AnyMatch(call.pending)
    /\ Len(call.sent) = 2
    /\ IsFirstMatch(call.sent, 1)
    /\ EntryMatches(call.sent[2])
    /\ call.sent[2].response = Response("int", <<"2", "0", "0">>)
    /\ call.result.status \in {"sent_error", "sent_no_response"}

\* a call of _command_matches has returned
MatchReturned == call.fn = "match" /\ call.pc = "returned"

\* the entry's time is an instant at or after sent_after minus 5 seconds
TimeInWindow == call.entry.time.kind = "aware" /\ call.entry.time.ms >= call.sent_after - MarginMs

\* what the payload of the entry parses to (no payload is "{}")
ParsedPayload ==
    LET p == PayloadOf(call.entry)
    IN  IF p.kind = "text" THEN JsonLoads(p.text)
        ELSE IF p.kind = "object" THEN [kind |-> "dict", obj |-> p.obj]
        ELSE [kind |-> "other", obj |-> EmptyDict]

\* C18: with an empty match set, _command_matches is true for every entry
\* whose name is the command name and whose time is at or after sent_after
\* minus 5 seconds, whatever its payload.
C18_EmptyMatchSetIgnoresPayload ==
    (MatchReturned /\ DOMAIN call.match = {} /\ call.entry.name = call.name /\ TimeInWindow)
        => call.matched

\* C18 witness: an entry accepted with the empty match set although its
\* payload is a string that does not parse
C18_Witness ==
    /\ MatchReturned /\ DOMAIN call.match = {} /\ call.matched
    /\ call.entry.payload.kind = "text"
    /\ call.entry.payload.text # <<>>
    /\ ParsedPayload.kind = "error"

\* C19: an entry whose time is earlier than sent_after minus 5 seconds is
\* rejected whatever its name and payload; for an entry at exactly sent_after
\* minus 5 seconds or later the result is the one its name and payload give.
C19_TimeWindow ==
    MatchReturned =>
        /\ (call.entry.time.kind = "aware" /\ call.entry.time.ms < call.sent_after - MarginMs)
              => ~call.matched
        /\ TimeInWindow =>
              (call.matched <=>
                  /\ call.entry.name = call.name
                  /\ PayloadAccepted(PayloadOf(call.entry), call.match))

\* C19 witness: an entry at exactly sent_after minus 5 seconds is accepted for
\* a match set that is not empty
C19_Witness ==
    /\ MatchReturned /\ call.matched
    /\ call.entry.time = [kind |-> "aware", ms |-> call.sent_after - MarginMs]
    /\ call.match = RESET_INCL_MATCH

\* the value the payload holds under key agrees with the expected value:
\* ignoring letter case when both are strings, equal otherwise
C20_Agrees(obj, key, expected) ==
    /\ key \in DOMAIN obj
    /\ IF obj[key].type = "str" /\ expected.type = "str"
       THEN LowerOf(obj[key].v) = LowerOf(expected.v)
       ELSE obj[key] = expected

\* C20: for a payload that parses to an object, _command_matches is true only
\* if every key of the match set is in the payload with a value that agrees
\* with the expected one (and it is true if moreover the name is the command
\* name and the time is in the window).
C20_ParsedPayloadKeyByKey ==
    (MatchReturned /\ ParsedPayload.kind = "dict") =>
        /\ call.matched =>
              \A key \in DOMAIN call.match : C20_Agrees(ParsedPayload.obj, key, call.match[key])
        /\ ( /\ call.entry.name = call.name
             /\ TimeInWindow
             /\ \A key \in DOMAIN call.match :
                    C20_Agrees(ParsedPayload.obj, key, call.match[key]) )
              => call.matched

\* C20 witness: a payload string whose value differs from the expected one in
\* letter case only is accepted
C20_Witness ==
    /\ MatchReturned /\ call.matched
    /\ call.match = MAINT_ON_MATCH
    /\ call.entry.payload.kind = "text"
    /\ ParsedPayload.kind = "dict"
    /\ ParsedPayload.obj["status"] = Str("on")

\* --------------------------------------------------------------- C21..C24
\* the verification has read a body and computed its checks
VerifyRead == call.fn = "verify" /\ call.pc \in {"finished", "returned"} /\ call.read.success

\* C21: on a body that was read, alarm_ok is "the alarm value is false",
\* inc_x_ok and inc_y_ok are "the average lies within [-tolerance, tolerance]"
\* (both ends included), timestamp_valid is "the latest of the three data
\* timestamps is later than reset_timestamp" (an equal one is not), and all_ok
\* is true exactly when the four checks are.
C21_ChecksAsDefined ==
    VerifyRead =>
        LET f == call.fields
            d == call.verify_data
            R == call.reset_timestamp
        IN /\ d.all_ok = (d.alarm_ok /\ d.inc_x_ok /\ d.inc_y_ok /\ d.timestamp_valid)
           /\ f[1].type # "null" => (d.alarm_ok = (f[1].v = FALSE))
           /\ f[3].type # "null" => (d.inc_x_ok = (-Tolerance <= f[3].v /\ f[3].v <= Tolerance))
           /\ f[5].type # "null" => (d.inc_y_ok = (-Tolerance <= f[5].v /\ f[5].v <= Tolerance))
           /\ (\A i \in {2, 4, 6} : f[i].type # "null") =>
                 (d.timestamp_valid = (\E i \in {2, 4, 6} : f[i].v > R))

\* a body with inclination X exactly at the tolerance and Y exactly at its
\* negative passes
C21_Witness ==
    /\ VerifyRead
    /\ \A i \in 1..6 : call.fields[i].type # "null"
    /\ call.fields[3].v = Tolerance
    /\ call.fields[5].v = -Tolerance
    /\ call.verify_data.all_ok

\* C22: the record reported for a verification that read a body and failed
\* carries the status of the first failed check in the order alarm,
\* timestamp, inclination X, inclination Y (and "Parziale" if none), also
\* when a check failed because its field is missing.
C22_FailureStatusByPrecedence ==
    (/\ call.fn = "verify"
     /\ call.pc = "returned"
     /\ call.read.success
     /\ ~call.verify_data.all_ok
     /\ call.reported # <<>>) =>
        LET d == call.verify_data
        IN call.reported[1].status =
              IF ~d.alarm_ok THEN VerifyStatus.ALARM_ACTIVE
              ELSE IF ~d.timestamp_valid THEN VerifyStatus.TIMESTAMP_INVALID
              ELSE IF ~d.inc_x_ok THEN VerifyStatus.INC_X_OUT_OF_RANGE
              ELSE IF ~d.inc_y_ok THEN VerifyStatus.INC_Y_OUT_OF_RANGE
              ELSE VerifyStatus.PARTIAL

\* C23: when one of the six fields is missing from the body, the check that
\* uses it is false (alarm value: alarm_ok, an average: its inclination
\* check, any timestamp: timestamp_valid) and all_ok is false.
C23_MissingFieldFails ==
    VerifyRead =>
        LET f == call.fields
            d == call.verify_data
        IN /\ f[1].type = "null" => ~d.alarm_ok /\ ~d.all_ok
           /\ f[3].type = "null" => ~d.inc_x_ok /\ ~d.all_ok
           /\ f[5].type = "null" => ~d.inc_y_ok /\ ~d.all_ok
           /\ (\E i \in {2, 4, 6} : f[i].type = "null") => ~d.timestamp_valid /\ ~d.all_ok

\* the task of the device has run and run() has returned
VerifyDone ==
    /\ call.fn = "verify"
    /\ call.pc = "returned"
    /\ call.stats.in_progress + call.stats.completed >= 1

\* the records reported are API errors with every check false
C24_ApiErrors ==
    \A i \in 1..Len(call.reported) :
        /\ call.reported[i].status = VerifyStatus.API_ERROR
        /\ ~call.reported[i].alarm_ok
        /\ ~call.reported[i].inc_x_ok
        /\ ~call.reported[i].inc_y_ok
        /\ ~call.reported[i].timestamp_valid
        /\ ~call.reported[i].all_ok

C25_Started == { t \in Tasks : task_pc[t] \notin {"unsubmitted", "queued", "cancelled", "stat_start"} }

\* C25: whenever get_stats takes the lock, in_progress >= 0 and
\* in_progress + success + failed is the number of tasks that have started.
C25_StatsAccountForStarted ==
    /\ stats.in_progress >= 0
    /\ stats.in_progress + stats.success + stats.failed = Cardinality(C25_Started)

\* -------------------------------------------------------------------- C26
\* C26: at every moment at most max_threads calls of _process_single_device
\* are executing, and the call of a list entry begins only from the queue,
\* to which it never returns: each entry is executed by at most one task.
C26_PoolWidthAndOneTaskPerEntry ==
    [][ /\ Cardinality({ t \in Tasks : Running(t) })' <= max_threads'
        /\ \A t \in Tasks :
              /\ task_pc'[t] = "queued" => task_pc[t] \in {"unsubmitted", "queued"}
              /\ task_pc'[t] = "stat_start" => task_pc[t] \in {"queued", "stat_start"} ]_vars

\* the pool is full and a submitted call waits for a thread
C26_Witness ==
    /\ Cardinality({ t \in Tasks : Running(t) }) = max_threads
    /\ \E t \in Tasks : task_pc[t] = "queued"

\* -------------------------------------------------------------------- C30
\* C30: when run() has returned, every device whose task started has been
\* handed to device_complete_callback exactly once, also after stop().
C30_OneTerminalRecordPerStartedTask ==
    run_pc = "returned" =>
        \A t \in Tasks :
            task_pc[t] \notin {"unsubmitted", "queued", "cancelled"} => delivered[t] = 1

C28_OneFetchAtATime ==
    call.fn = "token" =>
        Cardinality({ t \in {"w1", "w2", "v"} : call.th[t].pc = "fetching" }) <= 1

\* a send_command call of w has returned after its first POST was answered 401 or 403
C29_Refused(w) ==
    /\ call.th[w].pc = "idle"
    /\ call.th[w].calls >= 1
    /\ call.th[w].replies # <<>>
    /\ call.th[w].replies[1] \in {"401", "403"}

\* an accepted re-post: the call reports success and the time read for the re-post
C29_RepostAccepted(w) ==
    (Len(call.th[w].replies) = 2 /\ call.th[w].replies[2] = "200") =>
        /\ call.th[w].result = "accepted"
        /\ call.th[w].post_times[1] <= call.th[w].sent_time
        /\ call.th[w].sent_time < call.th[w].post_times[2]

\* C29 as stated: a call whose first POST is answered 401 or 403 re-posts the
\* command exactly once; an accepted re-post makes the call report success
\* with the time of the re-post, and the attempt counter counts the call once.
C29_RepostedExactlyOnce ==
    call.fn = "token" =>
        \A w \in {"w1", "w2"} :
            C29_Refused(w) =>
                /\ Len(call.th[w].replies) = 2
                /\ C29_RepostAccepted(w)
                /\ call.th[w].attempts = call.th[w].calls

\* C29 amended: the command is re-posted at most once, exactly once when a
\* token is obtained for the re-post, and not at all when the token request
\* fails (the call then reports a failure); no call makes more than two POSTs,
\* and a second one only after a first answered 401 or 403.
C29_RepostedOnceIfTokenObtained ==
    call.fn = "token" =>
        \A w \in {"w1", "w2"} :
            /\ Len(call.th[w].replies) <= 2
            /\ Len(call.th[w].replies) = 2 => call.th[w].replies[1] \in {"401", "403"}
            /\ call.th[w].attempts = call.th[w].calls
            /\ C29_Refused(w) =>
                  /\ Len(call.th[w].replies) = (IF call.th[w].token_error THEN 1 ELSE 2)
                  /\ call.th[w].token_error => call.th[w].result = "failed"
                  /\ C29_RepostAccepted(w)

\* a call whose first POST was answered 401 and whose re-post was accepted
C29_Witness ==
    /\ call.fn = "token"
    /\ \E w \in {"w1", "w2"} :
          /\ C29_Refused(w)
          /\ call.th[w].replies = << "401", "200" >>
          /\ call.th[w].result = "accepted"

\* ------------------------------------------------------------------------ C31
\* C31 as stated: after stop() is called, a running task begins at most one
\* further network call or sleep before it returns its record.
C31_AtMostOneWaitAfterStop ==
    \A t \in Tasks : obs[t].waits_after_stop <= 1

\* C31, amended: after stop() is called, a running task begins at most two
\* further network calls or sleeps before it returns its record (a send and the
\* sleep that follows it, or a log lookup and what follows it: the
\* configuration read after sent_ok, the sleep after pending); a task that has
\* returned began no more than that.
C31_AtMostTwoWaitsAfterStop ==
    \A t \in Tasks : obs[t].waits_after_stop <= 2

\* C31 witness: a task has returned INTERRUPTED after a log lookup and a
\* configuration read that both came after stop()
C31_Witness ==
    \E t \in Tasks :
        /\ task_pc[t] = "done"
        /\ rec[t].status = INTERRUPTED
        /\ rec[t].current_phase = MAINTENANCE_ON_VERIFYING
        /\ obs[t].phase_at_stop = MAINTENANCE_ON_CHECKING_LOG
        /\ obs[t].waits_after_stop = 2
        /\ obs[t].sends_after_stop = 0

\* ------------------------------------------------------------------------ C32
\* the loop a record is in, by its current_phase: the pcs of its send and of
\* its log polling, its attempt counter, the configuration value it waits for
C32_Loop(r) ==
    IF r.current_phase \in {MAINTENANCE_ON_SENDING, MAINTENANCE_ON_CHECKING_LOG,
                            MAINTENANCE_ON_VERIFYING}
    THEN [send |-> {"on_head", "on_send"}, attempts |-> r.maint_on_attempts, target |-> {"ON"},
          poll |-> {"on_poll_sleep", "on_poll_head", "on_lookup"}]
    ELSE IF r.current_phase \in {RESET_SENDING, RESET_CHECKING_LOG}
    THEN [send |-> {"rs_head", "rs_send"}, attempts |-> r.reset_attempts, target |-> ConfigOutcomes,
          poll |-> {"rs_poll_sleep", "rs_poll_head", "rs_lookup"}]
    ELSE [send |-> {"off_head", "off_send"}, attempts |-> r.maint_off_attempts, target |-> {"OFF"},
          poll |-> {"off_poll_sleep", "off_poll_head", "off_lookup"}]

\* the outcomes after which the command is sent again
C32_ResendCauses(r) ==
    { << "log", s >> : s \in {"sent_error", "sent_no_response", "not_found", "error"} }
        \cup { << "config", m >> : m \in ConfigOutcomes \ C32_Loop(r).target }

\* C32: after a log lookup that returned pending the task makes no send: as long
\* as stop() has not been called it is sleeping or looking up again.  After a
\* lookup that returned sent_error, sent_no_response, not_found or an error, or
\* in a maintenance phase after a configuration read that failed or did not
\* show the target, the task (unless stop() was called) is at the head of the
\* send loop or sending again; and a command is sent again only after one of
\* these, or after a send that was not accepted.
C32_PendingWaitsFailureResends ==
    /\ [](\A t \in Tasks : (Running(t) /\ obs[t].last_call = << "log", "pending" >> /\ ~stop)
            => task_pc[t] \in C32_Loop(rec[t]).poll)
    /\ [][\A t \in Tasks : obs[t].last_call = << "log", "pending" >>
            => /\ Now(rec'[t]) = Now(rec[t])
               /\ task_pc[t] \in {"on_send", "rs_send", "off_send"} => task_pc'[t] = task_pc[t]]_vars
    /\ [](\A t \in Tasks : (Running(t) /\ obs[t].last_call \in C32_ResendCauses(rec[t]) /\ ~stop)
            => task_pc[t] \in C32_Loop(rec[t]).send)
    /\ [][\A t \in Tasks :
            (C32_Loop(rec[t]).attempts >= 1 /\ C32_Loop(rec'[t]).attempts = C32_Loop(rec[t]).attempts + 1)
            => obs[t].last_call \in C32_ResendCauses(rec[t]) \cup { << "send", FALSE >> }]_vars

\* C32 witness: maintenance OFF is being sent a second time after the
\* configuration read that followed sent_ok still showed ON
C32_Witness ==
    \E t \in Tasks :
        /\ task_pc[t] = "off_send"
        /\ rec[t].maint_off_attempts = 2
        /\ obs[t].last_call = << "config", "ON" >>
        /\ ~stop

\* ------------------------------------------------------------------------ C33
\* where a task tests the stop flag next: the loop heads, the sleep after an
\* accepted send, the heads of the log loops, the tests after each phase
C33_StopTests ==
    { "on_head", "on_sleep", "on_poll_head", "after1",
      "rs_head", "rs_sleep", "rs_poll_head", "after2",
      "off_head", "off_sleep", "off_poll_head", "after3" }

C34_PhasesOfSend ==
    [ on_send |-> {MAINTENANCE_ON_SENDING, MAINTENANCE_ON_CHECKING_LOG, MAINTENANCE_ON_VERIFYING},
      rs_send |-> {RESET_SENDING, RESET_CHECKING_LOG},
      off_send |-> {MAINTENANCE_OFF_SENDING, MAINTENANCE_OFF_CHECKING_LOG,
                    MAINTENANCE_OFF_VERIFYING} ]

\* C34: after stop() is called a task begins at most one more send_command,
\* and a send made after stop() is the command of the phase the task was in
\* when stop() was called.
C34_AtMostOneSendAfterStop ==
    /\ [](\A t \in Tasks : obs[t].sends_after_stop <= 1)
    /\ [][\A t \in Tasks :
            (stop /\ task_pc[t] \in DOMAIN C34_PhasesOfSend /\ task_pc'[t] # task_pc[t])
            => /\ obs[t].phase_at_stop \in C34_PhasesOfSend[task_pc[t]]
               /\ obs[t].sends_after_stop = 0]_vars

\* C34 witness: a task has returned INTERRUPTED after one reset send made after
\* stop()
C34_Witness ==
    \E t \in Tasks :
        /\ task_pc[t] = "done"
        /\ rec[t].status = INTERRUPTED
        /\ obs[t].sends_after_stop = 1
        /\ obs[t].phase_at_stop \in C34_PhasesOfSend.rs_send
        /\ rec[t].reset_attempts >= 1
        /\ rec[t].maint_off_attempts = 0

\* ------------------------------------------------------------------------ C35
\* C35: every record with status OK has current_phase COMPLETED, maintenance ON
\* recorded as OK or already on, reset OK, maintenance OFF OK, maintenance_state
\* OFF, a reset_timestamp and no pending flag; so the devices that
\* get_devices_with_maintenance_on lists are exactly the keys of _results whose
\* record has the pending flag, and that is the list the cleanup works on.
C35_OkRecordIsCompleteAndCleanupListsFlagged ==
    /\ \A t \in Tasks :
        rec[t].status = OK =>
            /\ rec[t].current_phase = COMPLETED
            /\ rec[t].manutenzione_on \in {OK, GIA_ON}
            /\ rec[t].reset_inclinometro = OK
            /\ rec[t].manutenzione_off = OK
            /\ rec[t].maintenance_state = "OFF"
            /\ rec[t].reset_timestamp # {}
            /\ ~rec[t].has_maintenance_on_pending
    /\ DevicesWithMaintenanceOn =
           { d \in Devices : results[d] # 0 /\ RecordOf(d).has_maintenance_on_pending }
    /\ cleanup.pc = "loop" =>
           \A d \in cleanup.todo : results[d] # 0 /\ RecordOf(d).status # OK

\* C35 witness: the cleanup starts with one device completed and the other one
\* flagged and listed
C35_Witness ==
    /\ cleanup.pc = "loop"
    /\ cleanup.todo = {"d2"}
    /\ results["d1"] # 0 /\ RecordOf("d1").status = OK
    /\ results["d2"] # 0 /\ RecordOf("d2").has_maintenance_on_pending

\* ------------------------------------------------------------------------ C36
\* C36: a task whose maintenance OFF was confirmed (log sent_ok, then the
\* configuration read OFF), the earlier phases being confirmed before it,
\* returns a record with status OK and is counted in stats.success, whenever
\* stop() is called.
C36_ConfirmedDeviceEndsOk ==
    /\ \A t \in Tasks : (task_pc[t] = "done" /\ obs[t].off_confirmed) => rec[t].status = OK
    /\ stats.success >= Cardinality({ t \in Tasks : task_pc[t] = "done" /\ obs[t].off_confirmed })

\* ------------------------------------------------------------------------ C37
\* C37: in every state of a record, manutenzione_off = OK implies
\* reset_inclinometro = OK, which implies manutenzione_on OK or already on; the
\* outcome of each confirmed phase is in the record; and a record that is, or
\* becomes, INTERRUPTED has the three outcomes it had before.
C37_OutcomesFormPrefix ==
    /\ [](\A t \in Tasks :
            /\ rec[t].manutenzione_off = OK => rec[t].reset_inclinometro = OK
            /\ rec[t].reset_inclinometro = OK => rec[t].manutenzione_on \in {OK, GIA_ON}
            /\ obs[t].on_confirmed => rec[t].manutenzione_on \in {OK, GIA_ON}
            /\ obs[t].reset_ok_seen => rec[t].reset_inclinometro = OK
            /\ obs[t].off_confirmed => rec[t].manutenzione_off = OK)
    /\ [][\A t \in Tasks :
            rec'[t].status = INTERRUPTED =>
                /\ rec'[t].manutenzione_on = rec[t].manutenzione_on
                /\ rec'[t].reset_inclinometro = rec[t].reset_inclinometro
                /\ rec'[t].manutenzione_off = rec[t].manutenzione_off]_vars

\* C37 witness: a task interrupted in phase 3 has returned with the outcomes of
\* phases 1 and 2 and none for phase 3
C37_Witness ==
    \E t \in Tasks :
        /\ task_pc[t] = "done"
        /\ rec[t].status = INTERRUPTED
        /\ rec[t].manutenzione_on = OK
        /\ rec[t].reset_inclinometro = OK
        /\ rec[t].manutenzione_off = NON_ESEGUITO
        /\ rec[t].maint_off_attempts = 1

\* ------------------------------------------------------------------------ C38
\* C38: when a worker invalidates after a 401 or 403 and the stored token is
\* newer than the one its refused request carried (another thread has
\* refreshed it in the meantime), the stored token is kept and stays valid,
\* so that the worker's next get_token asks for no new one.
C38_InvalidateKeepsNewerToken ==
    [][\A w \in {"w1", "w2"} :
          (call.th[w].pc = "refresh" /\ call'.th[w].pc = "headers" /\ call.token > call.th[w].tok)
              => (call'.token = call.token /\ call'.fresh = call.fresh)]_vars

\* ------------------------------------------------------------------------ C39
\* C39: when run() has returned with every submitted task returned or
\* cancelled, stats.in_progress is 0 and stats.completed equals
\* stats.success + stats.failed, the number of tasks that ran.
C39_StatsAtEndOfRun ==
    (run_pc = "returned" /\ auth_ok = "ok") =>
        /\ stats.in_progress = 0
        /\ stats.completed = stats.success + stats.failed
        /\ stats.completed = Cardinality({ t \in Tasks : task_pc[t] = "done" })

\* ------------------------------------------------------------------------ C40
\* C40: when a verification run whose device was read has returned and stop()
\* was not called, whatever the body held (missing fields included), the
\* stats have in_progress = 0, completed = total and verified + failed =
\* completed, and the results hold one record for the one device.
C40_VerifyStatsAtEndOfRun ==
    (call.fn = "verify" /\ call.pc = "returned" /\ ~call.stop /\ call.read.success) =>
        /\ call.stats.in_progress = 0
        /\ call.stats.completed = call.stats.total
        /\ call.stats.verified + call.stats.failed = call.stats.completed
        /\ Len(call.results) = 1

================================================================================
